---- MODULE Spec2Model ----
(***************************************************************************)
(* A model of the FloWide script handler: the port pool (PortService), the *)
(* process runners (SubProcessRunner and its python / streamlit            *)
(* subclasses), and the Script and Service artifacts that drive them from  *)
(* coroutines scheduled on one asyncio event loop.                         *)
(*                                                                         *)
(* A coroutine is a task with a position (pc).  One action of the model is *)
(* the code a task runs between two points where it really suspends        *)
(* (create_subprocess, sleep, Process.wait on a live process, wait_for, a  *)
(* log write through aiofiles); everything in between is one atomic step,  *)
(* as on the single-threaded event loop.                                   *)
(***************************************************************************)
EXTENDS Integers, FiniteSets, Sequences, TLC

\* ------------------------------------------------------------------ bounds
PoolSize == 4       \* ports seeded into the stand-alone pool (SpecPort)
NumClients == 3     \* callers of acquire_port / release_port (SpecPort)
NumPorts == 2       \* ports seeded into the pool the runners share
MaxProcs == 3       \* OS processes alive or still referenced at one time
MaxTasks == 3       \* coroutines alive at the same time
MaxRuns == 2        \* run requests on Scripts in one behaviour
MaxReqs == 1        \* enable / disable / restart requests on Services
MaxStops == 1       \* stop / kill requests issued in one behaviour
MaxTime == 2        \* commit times a tagged release can have
MaxHooks == 2       \* hooks registered per Releases object and kind
MaxLog == 8         \* characters a Service's log file grows to
MaxBuf == 3         \* block sizes of the backward read of the log: 1 .. MaxBuf
MaxLimit == 3       \* limits asked of get_logs: 0 .. MaxLimit

\* ------------------------------------------------------- program constants
FirstPort == 17001      \* Arguments.streamlit_ports default, lower end
StartupTries == 5       \* Service._startup_tries

None == 0               \* Python None for a port / a process handle
NoCode == -1            \* Python None for an exit code

VARIABLES
    ports,      \* PortService._ports of the pool under test
    held,       \* SpecPort: the ports each client got and has not released
    got,        \* SpecPort: result of the last acquire_port (None: it raised)
    runner,     \* runner id -> SubProcessRunner fields
    procs,      \* process id -> OS process (status, exit code, port, signal)
    art,        \* artifact id -> Script / Service fields
    tasks,      \* task slot -> coroutine (position, artifact, locals)
    file,       \* artifact id -> content of its <name>.enabled file
    alias,      \* the build: is asyncio.TimeoutError the builtin TimeoutError?
                \* ("unknown" until a timeout first shows it, then "yes" / "no")
    nops,       \* requests issued so far (run; enable, disable, restart)
    nstops,     \* stop / kill requests issued so far
    ev,         \* what the last step did, for the properties
    rels,       \* repository -> tag -> Release in Releases._releases
    new_hooks,  \* repository -> Releases._new_hooks, in registration order
    delete_hooks, \* repository -> Releases._delete_hooks, in registration order
    scripts,    \* RepositoryCollection._scripts (an ObjCollection)
    services,   \* RepositoryCollection._services (an ObjCollection)
    disk,       \* the release snapshots that exist on disk (Release._path)
    last,       \* what the last operation on the repositories did
    repos,      \* the repositories in RepositoryCollection._repos_by_id
    proj,       \* the artifact that is the shared Script user 2's index holds
                \* (0: the Script objects behind the index are not followed)
    log,        \* the characters of a Service's <name>.logs file
    read        \* what the last get_logs was asked and what it returned

\* the variables of the runners and of the repositories
RunVars == <<ports, held, got, runner, procs, art, tasks, file, alias, nops, nstops, ev>>
RepoVars == <<rels, new_hooks, delete_hooks, scripts, services, disk, last, repos, proj>>
LogVars == <<log, read>>

vars == <<ports, held, got, runner, procs, art, tasks, file, alias, nops, nstops, ev,
          rels, new_hooks, delete_hooks, scripts, services, disk, last, repos, proj,
          log, read>>

\* ============================================================ PortService
\* SortedSet(ports) for range(a, b)
SeedPorts(first, n) == first .. (first + n - 1)

\* SortedSet.pop(0): the smallest element (raises IndexError when empty)
MinPort(P) == CHOOSE p \in P : \A q \in P : p <= q

\* a port acquire that forgets to remove the port from the set
AcquireKeeps(P) == [port |-> IF P = {} THEN None ELSE MinPort(P), pool |-> P]

\* a port acquire that pops the other end of the sorted set: pop(-1)
AcquireLast(P) ==
    IF P = {} THEN [port |-> None, pool |-> P]
    ELSE LET m == CHOOSE p \in P : \A q \in P : q <= p
         IN [port |-> m, pool |-> P \ {m}]

\* a port acquire that hands out the first port again when nothing is left
AcquireAnyway(P) ==
    IF P = {} THEN [port |-> FirstPort, pool |-> P]
    ELSE [port |-> MinPort(P), pool |-> P \ {MinPort(P)}]

\* PortService.acquire_port: the port returned and the set left behind;
\* on an empty set pop raises and the set is unchanged (port = None here)
acquire_port(P) ==
    IF P = {} THEN [port |-> None, pool |-> P]
    ELSE [port |-> MinPort(P), pool |-> P \ {MinPort(P)}]

\* PortService.release_port: SortedSet.add
release_port(P, p) == P \cup {p}

\* ======================================================= state of the model
Artifacts == 1 .. 2
Runners == 1 .. 2
Procs == 1 .. MaxProcs
Tasks == 1 .. MaxTasks
ExitCodes == {0, 1}
ScriptTypes == {"python", "streamlit"}

\* a Runner that was never constructed
NoRunner == [kind |-> "none", proc |-> None, port |-> None, event |-> FALSE, pty |-> FALSE,
             work_dir |-> "/"]

\* SubProcessRunner.__init__ (and the subclasses'): no process, event clear
\* (StreamlitVenvRunner leaves _port unset until its first _run_impl; it is
\* only read after a launch, so None stands for unset too); work_dir is the
\* factory's default '/'
NewRunner(kind) == [kind |-> kind, proc |-> None, port |-> None, event |-> FALSE, pty |-> FALSE,
                    work_dir |-> "/"]

\* the directories a Runner is given: the factory's default, the root_path of
\* a Release, the root_path of its shared clone, any other directory
Dirs == {"/", "release", "shared", "other"}

\* a Runner that Script.__init__ / Service.__init__ (clone_to_shared) has sent
\* to its release's root_path; the Runner is new, so set_working_dir sets
RunnerIn(kind, dir) == [NewRunner(kind) EXCEPT !.work_dir = dir]

NoProc == [status |-> "unused", code |-> NoCode, port |-> None, sig |-> 0, owner |-> 0]

\* an artifact slot that holds no Script / Service object
NoArt == [type |-> "none", runner |-> 0, state |-> "inactive", port |-> None,
          exit_code |-> NoCode, enabled |-> FALSE, started_at |-> 0, shared |-> FALSE]

\* ScriptModel / ServiceModel field defaults
NewArt(type, r, shared) == [type |-> type, runner |-> r, state |-> "inactive", port |-> None,
          exit_code |-> NoCode, enabled |-> FALSE, started_at |-> 0, shared |-> shared]

Idle == [pc |-> "idle", art |-> 0, op |-> "none", proc |-> 0, np |-> 0, tries |-> 0]
Task(pc, a, op, p) == [pc |-> pc, art |-> a, op |-> op, proc |-> p, np |-> 0, tries |-> 0]

Ev(kind, a, ready) == [kind |-> kind, art |-> a, ready |-> ready]

\* the state a step works on; ok turns FALSE when a bound of the model is hit
St == [ports |-> ports, runner |-> runner, procs |-> procs, art |-> art,
       tasks |-> tasks, file |-> file, ev |-> Ev("none", 0, FALSE), ok |-> TRUE]

\* the processes some Runner or coroutine still holds a handle of
Referenced(s) ==
    {s.runner[r].proc : r \in Runners} \cup {s.tasks[t].proc : t \in Tasks}
        \cup {s.tasks[t].np : t \in Tasks}

\* an exited process nobody holds a handle of is forgotten (its slot is free)
Reaped(s) ==
    [p \in Procs |-> IF s.procs[p].status = "exited" /\ p \notin Referenced(s)
                     THEN NoProc ELSE s.procs[p]]

Commit(s) ==
    /\ s.ok
    /\ ports' = s.ports
    /\ runner' = s.runner
    /\ procs' = Reaped(s)
    /\ art' = s.art
    /\ tasks' = s.tasks
    /\ file' = s.file
    /\ ev' = s.ev
    /\ UNCHANGED <<RepoVars, LogVars>>

MinOf(S) == CHOOSE x \in S : \A y \in S : x <= y
FreeProcs(s) == {p \in Procs : s.procs[p].status = "unused"}
FreeTasks(s) == {t \in Tasks : s.tasks[t].pc = "idle"}

\* asyncio.ensure_future(coro): a new task, run later by the loop
ensure_future(s, task) ==
    IF FreeTasks(s) = {} THEN [s EXCEPT !.ok = FALSE]
    ELSE [s EXCEPT !.tasks[MinOf(FreeTasks(s))] = task]

\* the coroutine of a task ends (returns or raises into the loop)
Finish(s, t, e) == [s EXCEPT !.tasks[t] = Idle, !.ev = e]

\* ========================================================= SubProcessRunner
RunnerOf(s, a) == s.art[a].runner

\* SubProcessRunner.is_running: self._proc and self._proc.returncode == None
is_running(s, r) ==
    /\ s.runner[r].proc # None
    /\ s.procs[s.runner[r].proc].status = "running"

\* Process.terminate / Process.kill: the signal is recorded on the process
Signal(s, p, sig) ==
    [s EXCEPT !.procs[p].sig = IF s.procs[p].sig < sig THEN sig ELSE s.procs[p].sig]

\* StreamlitVenvRunner._release_port: hand self._port back, then forget it
_release_port(s, r) ==
    IF s.runner[r].port # None
    THEN [s EXCEPT !.ports = release_port(s.ports, s.runner[r].port),
                   !.runner[r].port = None]
    ELSE s

\* what SubProcessRunner.wait (StreamlitVenvRunner.wait) does once
\* self._proc.wait() has returned: close the pty, clear the start event and,
\* for streamlit, release the port
WaitReturned(s, r) ==
    LET s1 == [s EXCEPT !.runner[r].pty = FALSE, !.runner[r].event = FALSE]
    IN IF s.runner[r].kind = "streamlit" THEN _release_port(s1, r) ELSE s1

\* a set_working_dir that does not look at the process
SetDirAnyway(s, r, dir) ==
    [s EXCEPT !.runner[r].work_dir = dir, !.ev = Ev("set_working_dir", 0, TRUE)]

\* Runner.set_working_dir: RunnerError while is_running, else the directory
\* is taken
set_working_dir(s, r, dir) ==
    IF is_running(s, r) THEN [s EXCEPT !.ev = Ev("RunnerError", 0, FALSE)]
    ELSE [s EXCEPT !.runner[r].work_dir = dir, !.ev = Ev("set_working_dir", 0, TRUE)]

\* create_subprocess_shell: the child is forked before the call suspends;
\* the handle reaches self._proc only when the awaiting task resumes
Spawn(s, t, r, port) ==
    IF FreeProcs(s) = {} THEN [s EXCEPT !.ok = FALSE]
    ELSE LET p == MinOf(FreeProcs(s))
         IN [s EXCEPT !.procs[p] = [status |-> "running", code |-> NoCode, port |-> port,
                                    sig |-> 0, owner |-> r],
                      !.tasks[t].pc = "create",
                      !.tasks[t].proc = None,
                      !.tasks[t].np = p]

\* _run_impl of PythonVEnvRunner and of StreamlitVenvRunner up to the await
\* of create_subprocess; an empty pool makes acquire_port raise IndexError,
\* which leaves Runner.run and the artifact's run through the task
_run_impl(s, t, a) ==
    LET r == RunnerOf(s, a)
        acq == acquire_port(s.ports)
    IN IF s.runner[r].kind = "streamlit"
       THEN IF acq.port = None
            THEN Finish(s, t, Ev("run_raised", a, FALSE))
            ELSE Spawn([s EXCEPT !.ports = acq.pool, !.runner[r].port = acq.port],
                       t, r, acq.port)
       ELSE Spawn(s, t, r, None)

\* SubProcessRunner.run after the is_running branch: open the pty
\* (PSEUDO_TERMINAL is the factory's default strategy), then _run_impl
RunnerLaunch(s, t, a) ==
    _run_impl([s EXCEPT !.runner[RunnerOf(s, a)].pty = TRUE], t, a)

\* SubProcessRunner.run: a running process is terminated first (terminate(10)
\* suspends in wait_for), otherwise the launch starts at once
RunnerRun(s, t, a) ==
    LET r == RunnerOf(s, a)
        p == s.runner[r].proc
    IN IF is_running(s, r)
       THEN [Signal(s, p, 1) EXCEPT !.tasks[t].pc = "term_wait", !.tasks[t].proc = p]
       ELSE RunnerLaunch(s, t, a)

\* ================================================================== Script
IsScript(s, a) == s.art[a].type \in ScriptTypes

\* Runner.wait as called by a coroutine that then ends (run_init_script after
\* script.run, Script.kill, the kill after a timed-out terminate):
\* Process.wait returns without suspending when the process has exited
WaitThenEnd(s, t, a, e) ==
    LET r == RunnerOf(s, a)
        p == s.runner[r].proc
    IN IF s.procs[p].status = "exited"
       THEN Finish(WaitReturned(s, r), t, e)
       ELSE [s EXCEPT !.tasks[t].pc = "end_wait", !.tasks[t].proc = p, !.ev = e]

\* Script.run after "ready = await self._runner.run(...)": state, port, the
\* exit watcher; then the caller goes on (run_script returns the script,
\* run_init_script awaits script.runner.wait())
ScriptRunReturned(s, t, a, ready) ==
    LET r == RunnerOf(s, a)
        s1 == [s EXCEPT !.art[a].state = IF ready THEN "active" ELSE "inactive",
                        !.art[a].port = s.runner[r].port]
        s2 == ensure_future(s1, Task("w_start", a, "watch", None))
        e == Ev("run_ret", a, ready)
    IN IF s.tasks[t].op = "hook" THEN WaitThenEnd(s2, t, a, e) ELSE Finish(s2, t, e)

\* Script.run up to its first suspension: the release is on disk (Release
\* loads itself when constructed), state = STARTING, then Runner.run
ScriptRun(s, t, a) ==
    RunnerRun([s EXCEPT !.art[a].state = "starting"], t, a)

\* Script._wait_task after "await self._runner.wait()" has returned
ScriptExitSeen(s, t, a, p) ==
    LET s1 == WaitReturned(s, RunnerOf(s, a))
    IN Finish([s1 EXCEPT !.art[a].exit_code = s.procs[p].code,
                         !.art[a].port = None,
                         !.art[a].state = "inactive"],
              t, Ev("none", 0, FALSE))

\* ================================================================= Service
\* json.dumps(self.enabled) as written by set_enabled
JsonDumps(b) == IF b THEN "true" ELSE "false"

\* a loader that takes an undecodable file for true
JsonLoadsLax(c) == c # "false"

\* json.loads of the file's content inside "except JSONDecodeError:
\* self.enabled = False"; "garbage" is any content json cannot decode
JsonLoads(c) == c = "true"

\* Service.__init__ reading <name>.enabled: the default False when the file
\* does not exist
ReadEnabled(c) == IF c = "absent" THEN FALSE ELSE JsonLoads(c)

\* a run that starts whether or not the runner is running
ServiceRunAnyway(s, t, a) ==
    [s EXCEPT !.art[a].state = "starting", !.tasks[t].pc = "svc_run_log",
              !.ev = Ev("svc_run", a, FALSE)]

\* Service.run up to its first suspension: a no-op when the runner is
\* running, else STARTING and the log write "Starting service..."
ServiceRun(s, t, a) ==
    IF is_running(s, RunnerOf(s, a))
    THEN Finish(s, t, Ev("svc_run_noop", a, FALSE))
    ELSE [s EXCEPT !.art[a].state = "starting", !.tasks[t].pc = "svc_run_log",
                   !.ev = Ev("svc_run", a, FALSE)]

\* Service.run's loop after one "ready = await self._runner.run(...)":
\* tries += 1; leave the loop when ready or after _startup_tries attempts
ServiceRunReturned(s, t, a, ready) ==
    LET r == RunnerOf(s, a)
        p == s.runner[r].proc
        n == s.tasks[t].tries + 1
    IN IF ready
       THEN LET s1 == [s EXCEPT !.art[a].state = "active", !.art[a].started_at = 1]
                s2 == ensure_future(s1, Task("w_start", a, "watch", None))
            IN Finish(s2, t, Ev("svc_run_ret", a, TRUE))
       ELSE IF n < StartupTries
       THEN RunnerRun([s EXCEPT !.tasks[t].tries = n], t, a)
       ELSE IF s.procs[p].status = "exited"
       THEN LET s1 == WaitReturned(s, r)
            IN [s1 EXCEPT !.art[a].state = "failed to start",
                          !.art[a].exit_code = s.procs[p].code,
                          !.tasks[t].tries = n,
                          !.tasks[t].pc = "svc_fail_log"]
       ELSE [s EXCEPT !.art[a].state = "failed to start",
                      !.tasks[t].tries = n,
                      !.tasks[t].pc = "svc_fail_wait", !.tasks[t].proc = p]

\* Service._wait_task after "await self._runner.wait()" has returned, up to
\* the log write "Process exited with code"
ServiceExitSeen(s, t, a, p) ==
    LET s1 == WaitReturned(s, RunnerOf(s, a))
    IN [s1 EXCEPT !.art[a].exit_code = s.procs[p].code,
                  !.art[a].state = "inactive",
                  !.art[a].started_at = 0,
                  !.tasks[t].pc = "w_log",
                  !.tasks[t].proc = None]

\* Service.terminate up to wait_for inside Runner.terminate(10)
ServiceTerminate(s, t, a) ==
    LET p == s.runner[RunnerOf(s, a)].proc
    IN [Signal(s, p, 1) EXCEPT !.tasks[t].pc = "svc_term_wait", !.tasks[t].proc = p]

\* Service.kill up to "await self.wait()" inside Runner.kill()
ServiceKill(s, t, a) ==
    LET p == s.runner[RunnerOf(s, a)].proc
    IN [Signal(s, p, 2) EXCEPT !.tasks[t].pc = "svc_kill_wait", !.tasks[t].proc = p]

\* after terminate / kill returned inside restart (then run) or inside
\* set_enabled(False) (then the request is done)
AfterStop(s, t, a) ==
    IF s.tasks[t].op = "restart" THEN ServiceRun(s, t, a)
    ELSE Finish(s, t, Ev("disabled", a, TRUE))

\* the artifact's run resumes with the runner's answer
RunReturned(s, t, a, ready) ==
    IF IsScript(s, a) THEN ScriptRunReturned(s, t, a, ready)
    ELSE ServiceRunReturned(s, t, a, ready)

\* ============================================== steps of suspended coroutines
Rest == <<held, got, alias, nops, nstops>>

\* the builds a timeout can show: the one already seen, else either
Build == IF alias = "unknown" THEN {"yes", "no"} ELSE {alias}

Exited(p) == procs[p].status = "exited"
Running(p) == procs[p].status = "running"

\* the OS process ends (by itself, or on a signal it was sent); the loop
\* records the return code, which is what is_running and Process.wait read
ProcessExit(p) ==
    /\ Running(p)
    /\ \E c \in ExitCodes :
          Commit([St EXCEPT !.procs[p].status = "exited", !.procs[p].code = c])
    /\ UNCHANGED Rest

\* Runner.run, "await self.terminate(10)": the old process has exited, wait
\* returns inside wait_for and run goes on to launch
TermWaitDone(t) ==
    LET a == tasks[t].art IN
    /\ tasks[t].pc = "term_wait"
    /\ Exited(tasks[t].proc)
    /\ Commit(RunnerLaunch(WaitReturned(St, RunnerOf(St, a)), t, a))
    /\ UNCHANGED Rest

\* Runner.run, "except asyncio.TimeoutError: await self.kill()"
TermTimeout(t) ==
    LET a == tasks[t].art IN
    /\ tasks[t].pc = "term_wait"
    /\ Running(tasks[t].proc)
    /\ Commit([Signal(St, runner[RunnerOf(St, a)].proc, 2)
                  EXCEPT !.tasks[t].pc = "kill_wait",
                         !.tasks[t].proc = runner[RunnerOf(St, a)].proc])
    /\ UNCHANGED Rest

\* Runner.run, the kill's wait returns and run goes on to launch
KillWaitDone(t) ==
    LET a == tasks[t].art IN
    /\ tasks[t].pc = "kill_wait"
    /\ Exited(tasks[t].proc)
    /\ Commit(RunnerLaunch(WaitReturned(St, RunnerOf(St, a)), t, a))
    /\ UNCHANGED Rest

\* _run_impl resumes from create_subprocess: self._proc = the new process;
\* the python runner returns True (run then sets the start event), the
\* streamlit runner sleeps 3 s first
CreateDone(t) ==
    LET a == tasks[t].art
        r == RunnerOf(St, a)
        s1 == [St EXCEPT !.runner[r].proc = tasks[t].np, !.tasks[t].np = None]
    IN
    /\ tasks[t].pc = "create"
    /\ Commit(IF runner[r].kind = "streamlit"
              THEN [s1 EXCEPT !.tasks[t].pc = "sleep"]
              ELSE RunReturned([s1 EXCEPT !.runner[r].event = TRUE], t, a, TRUE))
    /\ UNCHANGED Rest

\* StreamlitVenvRunner._run_impl after the sleep:
\* return self._proc.returncode == None
SleepDone(t) ==
    LET a == tasks[t].art
        r == RunnerOf(St, a)
        ready == Running(runner[r].proc)
    IN
    /\ tasks[t].pc = "sleep"
    /\ Commit(RunReturned([St EXCEPT !.runner[r].event = ready \/ runner[r].event], t, a, ready))
    /\ UNCHANGED Rest

ExitSeen(s, t, a, p) ==
    IF IsScript(s, a) THEN ScriptExitSeen(s, t, a, p) ELSE ServiceExitSeen(s, t, a, p)

\* _wait_task starts: self._runner.wait() awaits the process that is
\* self._proc now, and does not suspend if that one has exited
WatchStart(t) ==
    LET a == tasks[t].art
        p == runner[RunnerOf(St, a)].proc
    IN
    /\ tasks[t].pc = "w_start"
    /\ Commit(IF Exited(p) THEN ExitSeen(St, t, a, p)
              ELSE [St EXCEPT !.tasks[t].pc = "w_wait", !.tasks[t].proc = p])
    /\ UNCHANGED Rest

\* _wait_task resumes: the process it awaited has exited
WatchExit(t) ==
    /\ tasks[t].pc = "w_wait"
    /\ Exited(tasks[t].proc)
    /\ Commit(ExitSeen(St, t, tasks[t].art, tasks[t].proc))
    /\ UNCHANGED Rest

\* a coroutine that only awaited the exit (Script.kill, run_init_script's
\* wait) resumes, Runner.wait finishes, and the coroutine ends
EndWaitDone(t) ==
    LET a == tasks[t].art IN
    /\ tasks[t].pc = "end_wait"
    /\ Exited(tasks[t].proc)
    /\ Commit(Finish(WaitReturned(St, RunnerOf(St, a)), t, Ev("none", 0, FALSE)))
    /\ UNCHANGED Rest

\* ======================================================== requests on Scripts
\* a request handler is a coroutine: it takes a task slot and runs to its
\* first suspension
Begin(s, a, op) ==
    [s EXCEPT !.tasks[MinOf(FreeTasks(s))] = Task("entry", a, op, None)]

CanBegin(a) ==
    /\ FreeTasks(St) # {}
    /\ art[a].type # "none"

\* ScriptHandler.run_script: script.run() (when the runner is running the
\* request is answered HTTP 400 and nothing changes: no step)
run_script(a) ==
    LET t == MinOf(FreeTasks(St)) IN
    /\ CanBegin(a) /\ IsScript(St, a)
    /\ nops < MaxRuns
    /\ ~is_running(St, RunnerOf(St, a))
    /\ Commit(ScriptRun(Begin(St, a, "run"), t, a))
    /\ nops' = nops + 1
    /\ UNCHANGED <<held, got, alias, nstops>>

\* WebHooksHandlers.run_init_script: script.run(), then script.runner.wait()
run_init_script(a) ==
    LET t == MinOf(FreeTasks(St)) IN
    /\ CanBegin(a) /\ IsScript(St, a)
    /\ nops < MaxRuns
    /\ Commit(ScriptRun(Begin(St, a, "hook"), t, a))
    /\ nops' = nops + 1
    /\ UNCHANGED <<held, got, alias, nstops>>

\* ScriptHandler.stop_script: script.terminate() sends SIGTERM and waits up
\* to 10 s (unless running the request is answered HTTP 400, no step)
stop_script(a) ==
    LET t == MinOf(FreeTasks(St))
        p == runner[RunnerOf(St, a)].proc
    IN
    /\ CanBegin(a) /\ IsScript(St, a)
    /\ nstops < MaxStops
    /\ is_running(St, RunnerOf(St, a))
    /\ Commit([Signal(Begin(St, a, "stop"), p, 1)
                  EXCEPT !.tasks[t].pc = "stop_wait", !.tasks[t].proc = p])
    /\ nstops' = nstops + 1
    /\ UNCHANGED <<held, got, alias, nops>>

\* Script.terminate's wait_for returned in time: the handler returns
StopWaitDone(t) ==
    LET a == tasks[t].art IN
    /\ tasks[t].pc = "stop_wait"
    /\ Exited(tasks[t].proc)
    /\ Commit(Finish(WaitReturned(St, RunnerOf(St, a)), t, Ev("none", 0, FALSE)))
    /\ UNCHANGED Rest

\* Script.terminate's wait_for timed out.  Script.terminate catches the
\* builtin TimeoutError; where asyncio.TimeoutError is that class it returns
\* False and stop_script returns; where it is not, the error reaches
\* stop_script's "except asyncio.TimeoutError: await script.kill()"
StopTimeout(t) ==
    LET a == tasks[t].art
        p == runner[RunnerOf(St, a)].proc
    IN
    /\ tasks[t].pc = "stop_wait"
    /\ Running(tasks[t].proc)
    /\ \E b \in Build :
          /\ alias' = b
          /\ Commit(IF b = "yes" THEN Finish(St, t, Ev("none", 0, FALSE))
                    ELSE [Signal(St, p, 2)
                             EXCEPT !.tasks[t].pc = "end_wait", !.tasks[t].proc = p])
    /\ UNCHANGED <<held, got, nops, nstops>>

\* ScriptHandler.kill_script: script.kill() (HTTP 400 unless running)
kill_script(a) ==
    LET t == MinOf(FreeTasks(St))
        p == runner[RunnerOf(St, a)].proc
    IN
    /\ CanBegin(a) /\ IsScript(St, a)
    /\ nstops < MaxStops
    /\ is_running(St, RunnerOf(St, a))
    /\ Commit([Signal(Begin(St, a, "kill"), p, 2)
                  EXCEPT !.tasks[t].pc = "end_wait", !.tasks[t].proc = p])
    /\ nstops' = nstops + 1
    /\ UNCHANGED <<held, got, alias, nops>>

\* a clone that keeps the original's Runner object
CloneSameRunner(s, r) == r

\* Runner.clone (PythonVEnvRunner.clone, StreamlitVenvRunner.clone): a new
\* Runner object, here the first runner id not in use
RunnerClone(s, r) == MinOf({x \in Runners : s.runner[x].kind = "none"} \cup {r + 1})

\* Script.clone_to_shared: a Script of the same name, version and type on a
\* cloned Release, with a cloned Runner (same venv, same PortService)
clone_to_shared(a, b) ==
    LET r == RunnerOf(St, a)
        c == RunnerClone(St, r)
    IN
    /\ IsScript(St, a) /\ ~art[a].shared
    /\ art[b].type = "none"
    /\ c \in Runners
    /\ Commit([St EXCEPT !.runner[c] = IF c = r THEN @ ELSE RunnerIn(runner[r].kind, "shared"),
                         !.art[b] = NewArt(art[a].type, c, TRUE)])
    /\ UNCHANGED Rest

\* ================================================ releases and collections
\* two repositories; repository r belongs to user r, user 3 has none
Repos == 1 .. 2
Users == 1 .. 3
OwnerOf(repo) == repo
Tags == {"v1", "v2"}
Times == 1 .. MaxTime

\* AppType of an app in appconfig.yml, and the apps a tagged tree declares
\* (Release.apps, name -> AppConfig, in the order of the file)
App(name, type) == [name |-> name, type |-> type]
Manifests == {<<App("app", "python")>>, <<App("svc", "service")>>,
              <<App("app", "python"), App("svc", "service")>>}

\* the types an ObjCollection was built for (app.py)
ScriptsTypes == {"streamlit", "python"}
ServicesTypes == {"service"}

\* no entry (dict.get / get_release returning None)
NoRel == [time |-> 0, apps |-> <<>>]
NoObj == [repo |-> 0, name |-> "", version |-> "", shared |-> 0, time |-> 0]

\* a Script / Service as the collections see it: name, version = release.id
\* = tag name, and its Release (repo, time, shared_to_id; 0 for None)
Obj(repo, name, tag, time, shared) ==
    [repo |-> repo, name |-> name, version |-> tag, shared |-> shared, time |-> time]

\* Release._path: root / (shared owner, else repository owner) / repo / tag
PathOf(repo, tag, shared) ==
    <<IF shared # 0 THEN shared ELSE OwnerOf(repo), repo, tag>>

\* ------------------------------------------------------- ByNameCollection
\* _by_name (name -> version -> object) is kept as the sequence of its
\* objects in dict iteration order: names by first insertion, the versions of
\* a name by insertion
HasKey(B, name, version) ==
    \E i \in 1 .. Len(B) : B[i].name = name /\ B[i].version = version

\* ByNameCollection.new_object: an object under an existing (name, version)
\* is replaced in place, a new version goes behind the versions of its name,
\* a new name goes last
ByName_new_object(B, o) ==
    IF HasKey(B, o.name, o.version)
    THEN [i \in 1 .. Len(B) |->
            IF B[i].name = o.name /\ B[i].version = o.version THEN o ELSE B[i]]
    ELSE IF \E i \in 1 .. Len(B) : B[i].name = o.name
         THEN LET k == CHOOSE i \in 1 .. Len(B) :
                          /\ B[i].name = o.name
                          /\ \A j \in 1 .. Len(B) : B[j].name = o.name => j <= i
              IN SubSeq(B, 1, k) \o <<o>> \o SubSeq(B, k + 1, Len(B))
         ELSE Append(B, o)

\* ByNameCollection.delete_object: by name and version, whatever is stored
ByName_delete_object(B, o) ==
    SelectSeq(B, LAMBDA e : ~(e.name = o.name /\ e.version = o.version))

\* ByNameCollection.get_object
get_object(B, name, version) ==
    IF HasKey(B, name, version)
    THEN B[CHOOSE i \in 1 .. Len(B) : B[i].name = name /\ B[i].version = version]
    ELSE NoObj

\* ByNameCollection.get_by_name(name).values()
get_by_name(B, name) == SelectSeq(B, LAMBDA e : e.name = name)

\* ByNameCollection.get_all_for_release: every object whose version is the
\* release's id, the tag name
get_all_for_release(B, tag) == SelectSeq(B, LAMBDA e : e.version = tag)

\* ---------------------------------------------------------- ObjCollection
\* ObjCollection.__init__: empty canonical index, no owner index
NewCollection == [by_name |-> <<>>, owners |-> <<>>, by_owner |-> [u \in Users |-> <<>>]]

\* with_user_id = shared_to_id if shared_to_id else owner_id
WithUser(o) == IF o.shared # 0 THEN o.shared ELSE OwnerOf(o.repo)

InSeq(x, L) == \E i \in 1 .. Len(L) : L[i] = x

\* an insertion that puts every object into the canonical index too
NewObjectCanonical(C, o) ==
    [by_name |-> ByName_new_object(C.by_name, o),
     owners |-> IF InSeq(WithUser(o), C.owners) THEN C.owners
                ELSE Append(C.owners, WithUser(o)),
     by_owner |-> [C.by_owner EXCEPT ![WithUser(o)] = ByName_new_object(@, o)]]

\* ObjCollection.new_object
new_object(C, o) ==
    [by_name |-> IF WithUser(o) = OwnerOf(o.repo)
                 THEN ByName_new_object(C.by_name, o) ELSE C.by_name,
     owners |-> IF InSeq(WithUser(o), C.owners) THEN C.owners
                ELSE Append(C.owners, WithUser(o)),
     by_owner |-> [C.by_owner EXCEPT ![WithUser(o)] = ByName_new_object(@, o)]]

\* ObjCollection.delete_object (the owner index of an object that is in the
\* collection exists)
delete_object(C, o) ==
    [by_name |-> IF WithUser(o) = OwnerOf(o.repo)
                 THEN ByName_delete_object(C.by_name, o) ELSE C.by_name,
     owners |-> C.owners,
     by_owner |-> [C.by_owner EXCEPT ![WithUser(o)] = ByName_delete_object(@, o)]]

RECURSIVE Flatten(_)
Flatten(LL) == IF LL = <<>> THEN <<>> ELSE Head(LL) \o Flatten(Tail(LL))

\* ObjCollection.get_objects_for_release: over the owner indexes in the
\* order they were created
get_objects_for_release(C, tag) ==
    Flatten([i \in 1 .. Len(C.owners) |-> get_all_for_release(C.by_owner[C.owners[i]], tag)])

\* ObjCollection.has_object
has_object(C, user, name, version) ==
    InSeq(user, C.owners) /\ HasKey(C.by_owner[user], name, version)

\* list.sort(key=release.time, reverse=-1) sorted the other way round
RECURSIVE SortOldestFirst(_)
SortOldestFirst(L) ==
    IF L = <<>> THEN <<>>
    ELSE LET m == CHOOSE i \in 1 .. Len(L) :
                      /\ \A j \in 1 .. Len(L) : L[i].time <= L[j].time
                      /\ \A j \in 1 .. (i - 1) : L[j].time > L[i].time
         IN <<L[m]>> \o SortOldestFirst(SubSeq(L, 1, m - 1) \o SubSeq(L, m + 1, Len(L)))

\* list.sort(key=lambda s: s.release.time, reverse=-1): descending by time,
\* stable (objects of equal time keep their order)
RECURSIVE SortByTime(_)
SortByTime(L) ==
    IF L = <<>> THEN <<>>
    ELSE LET m == CHOOSE i \in 1 .. Len(L) :
                      /\ \A j \in 1 .. Len(L) : L[j].time <= L[i].time
                      /\ \A j \in 1 .. (i - 1) : L[j].time < L[i].time
         IN <<L[m]>> \o SortByTime(SubSeq(L, 1, m - 1) \o SubSeq(L, m + 1, Len(L)))

\* ObjCollection.get_latest_for_user_named
get_latest_for_user_named(C, user, name) ==
    LET sorted == SortByTime(IF InSeq(user, C.owners)
                              THEN get_by_name(C.by_owner[user], name) ELSE <<>>)
    IN IF sorted # <<>> THEN sorted[1] ELSE NoObj

\* ObjCollection.get_latest_for_name
get_latest_for_name(C, name) ==
    LET sorted == SortByTime(get_by_name(C.by_name, name))
    IN IF sorted # <<>> THEN sorted[1] ELSE NoObj

\* ObjCollection.is_name_available: no object of the canonical index has
\* this name and another repository
is_name_available(C, check_name, repo) ==
    ~\E i \in 1 .. Len(C.by_name) :
        C.by_name[i].repo # repo /\ C.by_name[i].name = check_name

\* ------------------------------------------------------ Release, Releases
\* the state an operation on the repositories works on, with what it has
\* done so far: hooks called, checkouts made, shared clones made, exception
\* raised
RS == [rels |-> rels, new_hooks |-> new_hooks, delete_hooks |-> delete_hooks,
       scripts |-> scripts, services |-> services, disk |-> disk, repos |-> repos,
       fired |-> <<>>, checkouts |-> 0, cloned |-> <<>>, raised |-> FALSE]

\* what an operation leaves behind for the properties: the operation, the
\* repository or user and the tag it was about, its argument (the path of a
\* load; collection, allowed_releases and allowed_from_user of an overlay)
Last(op, who, tag, arg, s) ==
    [op |-> op, who |-> who, tag |-> tag, arg |-> arg,
     fired |-> s.fired, checkouts |-> s.checkouts, cloned |-> s.cloned, raised |-> s.raised]

RCommit(s, l) ==
    /\ rels' = s.rels
    /\ new_hooks' = s.new_hooks
    /\ delete_hooks' = s.delete_hooks
    /\ scripts' = s.scripts
    /\ services' = s.services
    /\ disk' = s.disk
    /\ repos' = s.repos
    /\ last' = l
    /\ UNCHANGED <<proj, RunVars, LogVars>>

\* a load that checks the tree out again whether or not it is on disk
LoadAlways(s, repo, tag, shared, tagged) ==
    IF tagged
    THEN [s EXCEPT !.disk = @ \cup {PathOf(repo, tag, shared)}, !.checkouts = @ + 1]
    ELSE [s EXCEPT !.raised = TRUE]

\* Release.load: nothing when the path exists (loaded_on_disk), else
\* git_copy_tagged_version, which writes the tree of the tag below the path
\* (every release tree holds appconfig.yml) and raises when the repository
\* has no such tag
load(s, repo, tag, shared, tagged) ==
    IF PathOf(repo, tag, shared) \in s.disk THEN s
    ELSE IF tagged
         THEN [s EXCEPT !.disk = @ \cup {PathOf(repo, tag, shared)}, !.checkouts = @ + 1]
         ELSE [s EXCEPT !.raised = TRUE]

\* Release.unload: shutil.rmtree of the path (raises when it does not exist)
unload(s, repo, tag, shared) ==
    IF PathOf(repo, tag, shared) \in s.disk
    THEN [s EXCEPT !.disk = @ \ {PathOf(repo, tag, shared)}]
    ELSE [s EXCEPT !.raised = TRUE]

\* ---------------------------------------------------- RepositoryCollection
\* RepositoryCollection.new_release: a Script per python / streamlit app, a
\* Service per service app, in the order of release.apps
RECURSIVE AddApps(_, _, _, _, _)
AddApps(s, repo, tag, time, apps) ==
    IF apps = <<>> THEN s
    ELSE LET a == Head(apps)
             o == Obj(repo, a.name, tag, time, 0)
             s1 == IF a.type \in ScriptsTypes
                   THEN [s EXCEPT !.scripts = new_object(@, o)]
                   ELSE IF a.type \in ServicesTypes
                        THEN [s EXCEPT !.services = new_object(@, o)]
                        ELSE s
         IN AddApps(s1, repo, tag, time, Tail(apps))

Collection_new_release(s, repo, tag) ==
    AddApps(s, repo, tag, s.rels[repo][tag].time, s.rels[repo][tag].apps)

\* "for obj in objs: if <same repository>: collection.delete_object(obj)"
\* with the test taken on the repository id of whose[i]
RECURSIVE DeleteMatching(_, _, _, _)
DeleteMatching(C, objs, whose, repo) ==
    IF objs = <<>> THEN C
    ELSE DeleteMatching(IF Head(whose).repo = repo THEN delete_object(C, Head(objs)) ELSE C,
                        Tail(objs), Tail(whose), repo)

\* RepositoryCollection.delete_release.  The loop over the services tests
\* the loop variable of the loop over the scripts: the last script of the
\* list, or an unbound local (UnboundLocalError) when there was no script
Collection_delete_release(s, repo, tag) ==
    LET scr == get_objects_for_release(s.scripts, tag)
        svc == get_objects_for_release(s.services, tag)
        s1 == [s EXCEPT !.scripts = DeleteMatching(@, scr, scr, repo)]
    IN IF svc = <<>> THEN s1
       ELSE IF scr = <<>> THEN [s1 EXCEPT !.raised = TRUE]
       ELSE [s1 EXCEPT !.services =
                DeleteMatching(@, svc, [i \in 1 .. Len(svc) |-> scr[Len(scr)]], repo)]

\* "for release in repo.releases: self.delete_release(repo, release)" over
\* the tags in the order Releases._releases holds them; an exception leaves
\* the loop
RECURSIVE DeleteReleases(_, _, _)
DeleteReleases(s, repo, tags) ==
    IF tags = <<>> \/ s.raised THEN s
    ELSE DeleteReleases(Collection_delete_release(s, repo, Head(tags)), repo, Tail(tags))

\* RepositoryCollection.delete_repo: the repository leaves the indexes of
\* the repositories, then the collection's delete_release for each of its
\* releases (not Releases.delete_release: the Releases object keeps them)
Collection_delete_repo(s, repo, tags) ==
    DeleteReleases([s EXCEPT !.repos = @ \ {repo}], repo, tags)

\* a registered hook is called with (repository, release)
CallHook(s, h, kind, repo, tag) ==
    LET s1 == [s EXCEPT !.fired = Append(@, <<h, repo, tag>>)]
    IN IF h # "collection" THEN s1
       ELSE IF kind = "new" THEN Collection_new_release(s1, repo, tag)
       ELSE Collection_delete_release(s1, repo, tag)

\* "for hook in hooks: hook(self._repo, rel)": an exception leaves the loop
RECURSIVE FireHooks(_, _, _, _, _)
FireHooks(s, hooks, kind, repo, tag) ==
    IF hooks = <<>> \/ s.raised THEN s
    ELSE FireHooks(CallHook(s, Head(hooks), kind, repo, tag), Tail(hooks), kind, repo, tag)

\* a registration that calls the hooks of a tag that is already present too
NewReleaseAgain(s, repo, tag, rel) ==
    FireHooks([s EXCEPT !.rels[repo][tag] = IF @ = NoRel THEN rel ELSE @],
              s.new_hooks[repo], "new", repo, tag)

\* Releases.new_release
Releases_new_release(s, repo, tag, rel) ==
    IF s.rels[repo][tag] # NoRel THEN s
    ELSE FireHooks([s EXCEPT !.rels[repo][tag] = rel], s.new_hooks[repo], "new", repo, tag)

\* Releases.delete_release: the hooks get the Release that was removed;
\* rel.unload() is reached only when no hook raised
Releases_delete_release(s, repo, tag) ==
    IF s.rels[repo][tag] = NoRel THEN s
    ELSE LET s1 == [s EXCEPT !.rels[repo][tag] = NoRel]
             s2 == FireHooks(s1, s.delete_hooks[repo], "delete", repo, tag)
         IN IF s2.raised THEN s2 ELSE unload(s2, repo, tag, 0)

\* --------------------------------------------------- the sharing overlay
\* an entry of user_data.allowed_releases is kept as what split(';') makes of
\* it: "python;app;v1" is <<"python", "app", "v1">>, "" is <<"">>
Grants == {<<"">>, <<"app", "v1">>,
           <<"python", "app", "v1">>, <<"python", "app", "v2">>,
           <<"python", "app", "latest">>, <<"service", "svc", "v1">>}
GrantLists == {<<>>} \cup {<<g>> : g \in Grants}
                \cup {<<g, h>> : g \in {<<"python", "app", "v1">>}, h \in {<<"service", "svc", "v1">>}}

CollNames == {"scripts", "services"}
Coll(s, c) == IF c = "scripts" THEN s.scripts ELSE s.services
SetColl(s, c, C) == IF c = "scripts" THEN [s EXCEPT !.scripts = C] ELSE [s EXCEPT !.services = C]
TypesOf(c) == IF c = "scripts" THEN ScriptsTypes ELSE ServicesTypes

\* f"{name}:{version}" and f"{obj.name};{obj.release.id}"
FmtColon(name, version) == <<name, ":", version>>
FmtSemi(name, version) == <<name, ";", version>>

\* the objects of the user's index that belong to another user's repository
SharedOf(C, user) ==
    IF InSeq(user, C.owners)
    THEN SelectSeq(C.by_owner[user], LAMBDA e : OwnerOf(e.repo) # user)
    ELSE <<>>

\* the inner loop of the remover for one object: every well-formed entry of
\* this collection's type whose "name:version" differs from the object's
\* "name;version" deletes the object
RECURSIVE RemoveByGrants(_, _, _, _)
RemoveByGrants(C, types, o, allowed) ==
    IF allowed = <<>> THEN C
    ELSE LET split == Head(allowed)
             C1 == IF Len(split) < 3 THEN C
                   ELSE IF split[1] \notin types THEN C
                   ELSE IF ~(FmtColon(split[2], split[3]) = FmtSemi(o.name, o.version))
                        THEN delete_object(C, o)
                        ELSE C
         IN RemoveByGrants(C1, types, o, Tail(allowed))

\* create_extra_remover: the loop over the shared objects of the user
RECURSIVE Remover(_, _, _, _)
Remover(C, types, objs, allowed) ==
    IF objs = <<>> THEN C
    ELSE LET o == Head(objs)
             C1 == IF Len(allowed) = 0 \/ (Len(allowed) = 1 /\ allowed[1] = <<"">>)
                   THEN delete_object(C, o)
                   ELSE RemoveByGrants(C, types, o, allowed)
         IN Remover(C1, types, Tail(objs), allowed)

\* a clone made and put into the collection whether or not the user has
\* (name, version) already
AddCloneAlways(s, c, user, o, tagged) ==
    IF s.raised THEN s
    ELSE LET s1 == load(s, o.repo, o.version, user, tagged \/ s.rels[o.repo][o.version] # NoRel)
         IN IF s1.raised THEN s1
            ELSE [SetColl(s1, c, new_object(Coll(s1, c), Obj(o.repo, o.name, o.version, o.time, user)))
                     EXCEPT !.cloned = Append(@, <<o.name, o.version>>)]

\* obj.clone_to_shared(user) put into the collection unless the user has
\* (name, version) already: the cloned Release loads itself into its own
\* path, which raises when the tag is gone
AddClone(s, c, user, o, tagged) ==
    IF s.raised \/ has_object(Coll(s, c), user, o.name, o.version) THEN s
    ELSE LET s1 == load(s, o.repo, o.version, user, tagged \/ s.rels[o.repo][o.version] # NoRel)
         IN IF s1.raised THEN s1
            ELSE [SetColl(s1, c, new_object(Coll(s1, c), Obj(o.repo, o.name, o.version, o.time, user)))
                     EXCEPT !.cloned = Append(@, <<o.name, o.version>>)]

RECURSIVE AddClones(_, _, _, _, _)
AddClones(s, c, user, objs, tagged) ==
    IF objs = <<>> THEN s
    ELSE AddClones(AddClone(s, c, user, Head(objs), tagged), c, user, Tail(objs), tagged)

\* create_extra_adder, the loop over allowed_releases
RECURSIVE AdderReleases(_, _, _, _, _)
AdderReleases(s, c, user, allowed, tagged) ==
    IF allowed = <<>> \/ s.raised THEN s
    ELSE LET split == Head(allowed)
             C == Coll(s, c)
             latest == get_latest_for_name(C, split[2])
             s1 == IF Len(split) < 3 THEN s
                   ELSE IF split[1] \notin TypesOf(c) THEN s
                   ELSE IF split[3] = "latest"
                        THEN IF latest # NoObj /\ OwnerOf(latest.repo) # user
                             THEN AddClone(s, c, user, latest, tagged) ELSE s
                        ELSE AddClones(s, c, user,
                                 SelectSeq(get_by_name(C.by_name, split[2]),
                                     LAMBDA e : e.version = split[3] /\ OwnerOf(e.repo) # user),
                                 tagged)
         IN AdderReleases(s1, c, user, Tail(allowed), tagged)

\* create_extra_adder, the loop over allowed_from_user: every object of the
\* other user's index
RECURSIVE AdderUsers(_, _, _, _, _)
AdderUsers(s, c, user, from, tagged) ==
    IF from = <<>> \/ s.raised THEN s
    ELSE AdderUsers(AddClones(s, c, user, Coll(s, c).by_owner[Head(from)], tagged),
                    c, user, Tail(from), tagged)

Adder(s, c, user, allowed, from, tagged) ==
    AdderUsers(AdderReleases(s, c, user, allowed, tagged), c, user, from, tagged)

\* ------------------------------------------------------- a Service's log
\* the log file is a sequence of characters: "h" stands for the header
\* "[<time>] [<tag>] " every write starts with, "a" and "b" for text, "nl"
\* for the newline
Texts == {"a", "b"}

\* str.splitlines(True): the lines with their line ends; cur is the line
\* being collected
RECURSIVE SplitKeep(_, _)
SplitKeep(s, cur) ==
    IF s = <<>> THEN (IF cur = <<>> THEN <<>> ELSE <<cur>>)
    ELSE IF Head(s) = "nl" THEN <<Append(cur, "nl")>> \o SplitKeep(Tail(s), <<>>)
    ELSE SplitKeep(Tail(s), Append(cur, Head(s)))

\* str.splitlines(): the lines without their line ends
splitlines(s) ==
    LET K == SplitKeep(s, <<>>)
    IN [i \in 1 .. Len(K) |->
            IF K[i][Len(K[i])] = "nl" THEN SubSeq(K[i], 1, Len(K[i]) - 1) ELSE K[i]]

\* list.reverse()
Reverse(L) == [i \in 1 .. Len(L) |-> L[Len(L) + 1 - i]]

\* '\n'.join(lines)
RECURSIVE JoinLines(_)
JoinLines(L) ==
    IF L = <<>> THEN <<>>
    ELSE IF Len(L) = 1 THEN L[1]
    ELSE L[1] \o <<"nl">> \o JoinLines(Tail(L))

\* segment = None
NoSegment == <<"None">>

\* the while loop of _reverse_read_lines, and the yield behind it: one block
\* of buf_size characters per round, read backward from the end of the file;
\* out is what has been yielded so far
RECURSIVE ReadBlocks(_, _, _, _, _, _)
ReadBlocks(content, buf_size, segment, offset, remaining_size, out) ==
    IF remaining_size <= 0
    THEN (IF segment # NoSegment THEN Append(out, segment) ELSE out)
    ELSE LET file_size == Len(content)
             off == IF file_size < offset + buf_size THEN file_size ELSE offset + buf_size
             n == IF remaining_size < buf_size THEN remaining_size ELSE buf_size
             buffer == SubSeq(content, file_size - off + 1, file_size - off + n)
             split == SplitKeep(buffer, <<>>)
             ends == buffer[Len(buffer)] = "nl"
             out1 == IF segment # NoSegment /\ ends THEN Append(out, segment) ELSE out
             lines == IF segment # NoSegment /\ ~ends
                      THEN [split EXCEPT ![Len(split)] = @ \o segment]
                      ELSE split
         IN ReadBlocks(content, buf_size, lines[1], off, remaining_size - buf_size,
                       out1 \o Reverse(Tail(lines)))

\* _reverse_read_lines(fp, buf_size): everything the generator yields
_reverse_read_lines(content, buf_size) ==
    ReadBlocks(content, buf_size, NoSegment, 0, Len(content), <<>>)

\* Service.get_logs: the first limit yields are concatenated, the result is
\* split into lines, reversed and joined
get_logs(content, limit, buf_size) ==
    LET Y == _reverse_read_lines(content, buf_size)
        k == IF limit < Len(Y) THEN limit ELSE Len(Y)
        logs == Flatten(SubSeq(Y, 1, k))
    IN JoinLines(Reverse(splitlines(logs)))

\* no get_logs yet
NoRead == [limit |-> -1, buf_size |-> 0, content |-> <<>>, text |-> <<>>]

\* ---------------------------------------------------------- initial state
\* RepositoryCollection after new_repo of every repository, none of which has
\* a tag yet: its two hooks are registered, the collections are empty
InitRepos ==
    /\ rels = [r \in Repos |-> [t \in Tags |-> NoRel]]
    /\ new_hooks = [r \in Repos |-> <<"collection">>]
    /\ delete_hooks = [r \in Repos |-> <<"collection">>]
    /\ scripts = NewCollection
    /\ services = NewCollection
    /\ disk = {}
    /\ repos = Repos
    /\ proj = 0
    /\ last = Last("none", 0, "", <<>>, RS)

\* ========================================================= the Script system
InitCommon ==
    /\ held = [c \in 1 .. NumClients |-> {}]
    /\ got = None
    /\ procs = [p \in Procs |-> NoProc]
    /\ alias = "unknown"
    /\ nops = 0
    /\ nstops = 0
    /\ ev = Ev("none", 0, FALSE)
    /\ InitRepos
    /\ log = <<>>
    /\ read = NoRead

\* one Script (python or streamlit) built by RepositoryCollection.new_release
\* with a Runner from VEnvRunnerFactory; the pool holds range(a, b)
Init ==
    /\ InitCommon
    /\ ports = SeedPorts(FirstPort, NumPorts)
    /\ tasks = [t \in Tasks |-> Idle]
    /\ file = [a \in Artifacts |-> "absent"]
    /\ \E ty \in ScriptTypes :
          /\ runner = [r \in Runners |-> IF r = 1 THEN RunnerIn(ty, "release") ELSE NoRunner]
          /\ art = [a \in Artifacts |-> IF a = 1 THEN NewArt(ty, 1, FALSE) ELSE NoArt]

Next ==
    \/ \E p \in Procs : ProcessExit(p)
    \/ \E a \in Artifacts : run_script(a)
    \/ \E a \in Artifacts : run_init_script(a)
    \/ \E a \in Artifacts : stop_script(a)
    \/ \E a \in Artifacts : kill_script(a)
    \/ \E a, b \in Artifacts : clone_to_shared(a, b)
    \/ \E t \in Tasks : TermWaitDone(t)
    \/ \E t \in Tasks : TermTimeout(t)
    \/ \E t \in Tasks : KillWaitDone(t)
    \/ \E t \in Tasks : CreateDone(t)
    \/ \E t \in Tasks : SleepDone(t)
    \/ \E t \in Tasks : WatchStart(t)
    \/ \E t \in Tasks : WatchExit(t)
    \/ \E t \in Tasks : EndWaitDone(t)
    \/ \E t \in Tasks : StopWaitDone(t)
    \/ \E t \in Tasks : StopTimeout(t)

Spec == Init /\ [][Next]_vars

\* ------------------------------------------- a Runner and its directory
\* a caller that holds the Runner (script.runner, service.runner) sends it to
\* another directory
change_dir(r, dir) ==
    /\ runner[r].kind # "none"
    /\ Commit(set_working_dir(St, r, dir))
    /\ UNCHANGED Rest

\* a Script that is run and killed, and its Runner
NextRunner ==
    \/ \E p \in Procs : ProcessExit(p)
    \/ \E a \in Artifacts : run_script(a)
    \/ \E a \in Artifacts : kill_script(a)
    \/ \E t \in Tasks : CreateDone(t)
    \/ \E t \in Tasks : SleepDone(t)
    \/ \E t \in Tasks : WatchStart(t)
    \/ \E t \in Tasks : WatchExit(t)
    \/ \E t \in Tasks : EndWaitDone(t)
    \/ \E r \in Runners, dir \in Dirs : change_dir(r, dir)

SpecRunner == Init /\ [][NextRunner]_vars

\* ------------------------------------------- a Script and its exit watcher
\* the coroutines of a Script that is run: Runner.run's resumptions and
\* Script._wait_task
ScriptTaskStep(t) ==
    \/ CreateDone(t)
    \/ SleepDone(t)
    \/ WatchStart(t)
    \/ WatchExit(t)

NextExitWatched ==
    \/ \E p \in Procs : ProcessExit(p)
    \/ \E a \in Artifacts : run_script(a)
    \/ \E t \in Tasks : CreateDone(t)
    \/ \E t \in Tasks : SleepDone(t)
    \/ \E t \in Tasks : WatchStart(t)
    \/ \E t \in Tasks : WatchExit(t)

\* the event loop resumes every coroutine that can go on; a process is
\* never obliged to exit and no request is obliged to come
SpecScriptFair ==
    Init /\ [][NextExitWatched]_vars /\ \A t \in Tasks : WF_vars(ScriptTaskStep(t))

\* ------------------------------------------------ a Script and an observer
\* a cancellation that takes the process down with the waiting task
CancelKills(s, t) ==
    LET p == s.runner[RunnerOf(s, s.tasks[t].art)].proc
    IN Finish(IF p = None THEN s ELSE Signal(s, p, 2), t,
              Ev("cancelled", s.tasks[t].art, FALSE))

\* RunnerWebsocketConnector._ws_iter_raw's "finally: self._task_futures
\* .cancel()" (or the CancelledError in output_stream): the observer's task
\* ends where it was suspended, in run_start_event.wait() or inside
\* Runner.wait at "await self._proc.wait()", before wait's clean-up
CancelWait(s, t) == Finish(s, t, Ev("cancelled", s.tasks[t].art, FALSE))

\* RunnerWebsocketConnector.serve, its wait_task: Runner.wait, then the exit
\* code is sent and the socket closed
ObserverServe(s, t, a) == WaitThenEnd(s, t, a, Ev("serve", a, FALSE))

\* ScriptHandler.output_stream: the socket is accepted, the handler awaits
\* run_start_event and serves
output_stream(a) ==
    LET t == MinOf(FreeTasks(St))
        s1 == Begin(St, a, "output")
    IN
    /\ CanBegin(a) /\ IsScript(St, a)
    /\ Commit(IF runner[RunnerOf(St, a)].event THEN ObserverServe(s1, t, a)
              ELSE [s1 EXCEPT !.tasks[t].pc = "obs_event"])
    /\ UNCHANGED Rest

\* run_start_event was set: the observer goes on to serve
ObserverEvent(t) ==
    LET a == tasks[t].art IN
    /\ tasks[t].pc = "obs_event"
    /\ runner[RunnerOf(St, a)].event
    /\ Commit(ObserverServe(St, t, a))
    /\ UNCHANGED Rest

\* the observer disconnects
ObserverGone(t) ==
    /\ tasks[t].op = "output"
    /\ tasks[t].pc \in {"obs_event", "end_wait"}
    /\ Commit(CancelWait(St, t))
    /\ UNCHANGED Rest

NextObserved ==
    \/ \E p \in Procs : ProcessExit(p)
    \/ \E a \in Artifacts : run_script(a)
    \/ \E a \in Artifacts : stop_script(a)
    \/ \E a \in Artifacts : output_stream(a)
    \/ \E t \in Tasks : ObserverEvent(t)
    \/ \E t \in Tasks : ObserverGone(t)
    \/ \E t \in Tasks : CreateDone(t)
    \/ \E t \in Tasks : SleepDone(t)
    \/ \E t \in Tasks : WatchStart(t)
    \/ \E t \in Tasks : WatchExit(t)
    \/ \E t \in Tasks : EndWaitDone(t)
    \/ \E t \in Tasks : StopWaitDone(t)
    \/ \E t \in Tasks : StopTimeout(t)

SpecObserved == Init /\ [][NextObserved]_vars

\* --------------------------------------------------- overlapping launches
\* a streamlit Script whose first run request has been accepted and is
\* suspended in create_subprocess: the state run_script leaves from Init
\* (STARTING, pty open, port 17001 acquired, the child forked, self._proc
\* not yet assigned)
InitLaunching ==
    /\ held = [c \in 1 .. NumClients |-> {}]
    /\ got = None
    /\ alias = "unknown"
    /\ nops = 0
    /\ nstops = 0
    /\ ev = Ev("none", 0, FALSE)
    /\ InitRepos
    /\ log = <<>>
    /\ read = NoRead
    /\ file = [a \in Artifacts |-> "absent"]
    /\ ports = SeedPorts(FirstPort, NumPorts) \ {FirstPort}
    /\ procs = [p \in Procs |->
                  IF p = 1 THEN [status |-> "running", code |-> NoCode, port |-> FirstPort,
                                 sig |-> 0, owner |-> 1]
                  ELSE NoProc]
    /\ runner = [r \in Runners |->
                   IF r = 1 THEN [RunnerIn("streamlit", "release")
                                     EXCEPT !.port = FirstPort, !.pty = TRUE]
                   ELSE NoRunner]
    /\ art = [a \in Artifacts |->
                IF a = 1 THEN [NewArt("streamlit", 1, FALSE) EXCEPT !.state = "starting"]
                ELSE NoArt]
    /\ tasks = [t \in Tasks |->
                  IF t = 1 THEN [Task("create", 1, "run", None) EXCEPT !.np = 1] ELSE Idle]

\* further run requests (route and webhook) while that launch is in flight
NextOverlap ==
    \/ \E p \in Procs : ProcessExit(p)
    \/ \E a \in Artifacts : run_script(a)
    \/ \E a \in Artifacts : run_init_script(a)
    \/ \E t \in Tasks : TermWaitDone(t)
    \/ \E t \in Tasks : TermTimeout(t)
    \/ \E t \in Tasks : KillWaitDone(t)
    \/ \E t \in Tasks : CreateDone(t)
    \/ \E t \in Tasks : SleepDone(t)
    \/ \E t \in Tasks : WatchStart(t)
    \/ \E t \in Tasks : WatchExit(t)
    \/ \E t \in Tasks : EndWaitDone(t)

SpecOverlap == InitLaunching /\ [][NextOverlap]_vars

\* ============================================================ the port pool
\* PortService(range(a, b)) on its own, used by NumClients callers
InitPort ==
    /\ InitCommon
    /\ ports = SeedPorts(FirstPort, PoolSize)
    /\ tasks = [t \in Tasks |-> Idle]
    /\ file = [a \in Artifacts |-> "absent"]
    /\ runner = [r \in Runners |-> NoRunner]
    /\ art = [a \in Artifacts |-> NoArt]

NotPool == <<runner, procs, art, tasks, file, alias, nops, nstops, ev, RepoVars, LogVars>>

\* a caller takes a port: acquire_port; on an empty pool it raises and the
\* caller gets nothing
Acquire(c) ==
    LET acq == acquire_port(ports) IN
    /\ ports' = acq.pool
    /\ got' = acq.port
    /\ held' = IF acq.port = None THEN held ELSE [held EXCEPT ![c] = @ \cup {acq.port}]
    /\ UNCHANGED NotPool

\* a caller gives back a port it holds: release_port
Release(c, p) ==
    /\ p \in held[c]
    /\ ports' = release_port(ports, p)
    /\ held' = [held EXCEPT ![c] = @ \ {p}]
    /\ UNCHANGED <<got, NotPool>>

NextPort ==
    \/ \E c \in 1 .. NumClients : Acquire(c)
    \/ \E c \in 1 .. NumClients, p \in SeedPorts(FirstPort, PoolSize) : Release(c, p)

SpecPort == InitPort /\ [][NextPort]_vars

\* ================================================================ Services
\* what <name>.enabled can hold when a Service is constructed: no file,
\* something json cannot decode, or what set_enabled wrote earlier
FileContents == {"absent", "garbage", JsonDumps(TRUE), JsonDumps(FALSE)}

IsService(s, a) == s.art[a].type = "service"

\* Service.__init__: the model defaults, enabled read from the file
NewService(r, c) == [NewArt("service", r, FALSE) EXCEPT !.enabled = ReadEnabled(c)]

\* one Service built by RepositoryCollection.new_release, always with a
\* python Runner; when enabled, __init__ has scheduled self.run()
InitService ==
    /\ InitCommon
    /\ ports = SeedPorts(FirstPort, NumPorts)
    /\ \E c \in FileContents :
          /\ file = [a \in Artifacts |-> IF a = 1 THEN c ELSE "absent"]
          /\ runner = [r \in Runners |-> IF r = 1 THEN RunnerIn("python", "release") ELSE NoRunner]
          /\ art = [a \in Artifacts |-> IF a = 1 THEN NewService(1, c) ELSE NoArt]
          /\ tasks = [t \in Tasks |-> IF t = 1 /\ ReadEnabled(c)
                                      THEN Task("auto", 1, "auto", None) ELSE Idle]

\* the run() scheduled by __init__ starts
AutoStart(t) ==
    /\ tasks[t].pc = "auto"
    /\ Commit(ServiceRun(St, t, tasks[t].art))
    /\ UNCHANGED Rest

\* Service.run resumes after "Starting service...": tries = 0 and the first
\* self._runner.run(...) of the loop
RunLogDone(t) ==
    /\ tasks[t].pc = "svc_run_log"
    /\ Commit(RunnerRun([St EXCEPT !.tasks[t].tries = 0], t, tasks[t].art))
    /\ UNCHANGED Rest

\* a _wait_task that never runs the Service again
NeverRerun(s, t, a) == Finish(s, t, Ev("none", 0, FALSE))

\* Service._wait_task after "Process exited with code": if self.enabled,
\* await self.run()
AfterExitLog(s, t, a) ==
    IF s.art[a].enabled THEN ServiceRun(s, t, a) ELSE Finish(s, t, Ev("none", 0, FALSE))

WatchLogDone(t) ==
    /\ tasks[t].pc = "w_log"
    /\ Commit(AfterExitLog(St, t, tasks[t].art))
    /\ UNCHANGED Rest

\* Service.set_enabled up to the branch: the flag and its file
SetEnabled(s, a, b) == [s EXCEPT !.art[a].enabled = b, !.file[a] = JsonDumps(b)]

\* ServiceHandler.enable_service: set_enabled(True, True)
enable_service(a) ==
    LET t == MinOf(FreeTasks(St))
        s1 == SetEnabled(Begin(St, a, "enable"), a, TRUE)
    IN
    /\ CanBegin(a) /\ IsService(St, a)
    /\ nops < MaxReqs
    /\ Commit(IF is_running(St, RunnerOf(St, a))
              THEN Finish(s1, t, Ev("enabled", a, FALSE))
              ELSE ServiceRun(s1, t, a))
    /\ nops' = nops + 1
    /\ UNCHANGED <<held, got, alias, nstops>>

\* ServiceHandler.disable_service: set_enabled(False, True); ev.ready tells
\* whether the Service was STARTING or ACTIVE when the request came
disable_service(a) ==
    LET t == MinOf(FreeTasks(St))
        s1 == SetEnabled(Begin(St, a, "disable"), a, FALSE)
    IN
    /\ CanBegin(a) /\ IsService(St, a)
    /\ nops < MaxReqs
    /\ Commit(IF is_running(St, RunnerOf(St, a))
              THEN ServiceTerminate(s1, t, a)
              ELSE Finish(s1, t, Ev("disabled", a, art[a].state # "inactive")))
    /\ nops' = nops + 1
    /\ UNCHANGED <<held, got, alias, nstops>>

\* ServiceHandler.restart_service: Service.restart up to its first suspension
restart_service(a) ==
    LET t == MinOf(FreeTasks(St))
        s1 == Begin(St, a, "restart")
    IN
    /\ CanBegin(a) /\ IsService(St, a)
    /\ nops < MaxReqs
    /\ Commit(IF is_running(St, RunnerOf(St, a))
              THEN [s1 EXCEPT !.tasks[t].pc = "restart_log"]
              ELSE ServiceRun(s1, t, a))
    /\ nops' = nops + 1
    /\ UNCHANGED <<held, got, alias, nstops>>

\* restart resumes after "Restarting service...": Service.terminate.  When
\* the process has exited meanwhile, self._proc.terminate() either raises
\* ProcessLookupError (the transport is closed: restart fails) or does
\* nothing (it is not closed yet)
RestartLogDone(t) ==
    LET a == tasks[t].art
        p == runner[RunnerOf(St, a)].proc
    IN
    /\ tasks[t].pc = "restart_log"
    /\ \/ Commit(ServiceTerminate(St, t, a))
       \/ Exited(p) /\ Commit(Finish(St, t, Ev("none", 0, FALSE)))
    /\ UNCHANGED Rest

\* Service.terminate: the wait inside wait_for returned in time, then
\* "Service has been terminated" is logged
SvcTermDone(t) ==
    LET a == tasks[t].art IN
    /\ tasks[t].pc = "svc_term_wait"
    /\ Exited(tasks[t].proc)
    /\ Commit([WaitReturned(St, RunnerOf(St, a)) EXCEPT !.tasks[t].pc = "svc_term_log"])
    /\ UNCHANGED Rest

\* Service.terminate: wait_for timed out.  Where asyncio.TimeoutError is the
\* builtin TimeoutError, terminate returns False and the caller kills; where
\* it is not, the error leaves terminate and its caller (the request fails)
SvcTermTimeout(t) ==
    LET a == tasks[t].art IN
    /\ tasks[t].pc = "svc_term_wait"
    /\ Running(tasks[t].proc)
    /\ \E b \in Build :
          /\ alias' = b
          /\ Commit(IF b = "yes" THEN ServiceKill(St, t, a)
                    ELSE Finish(St, t, Ev("none", 0, FALSE)))
    /\ UNCHANGED <<held, got, nops, nstops>>

\* terminate returned True to restart / set_enabled
SvcTermLogDone(t) ==
    /\ tasks[t].pc = "svc_term_log"
    /\ Commit(AfterStop(St, t, tasks[t].art))
    /\ UNCHANGED Rest

\* Service.kill: the wait returned, then "Service has been killed" is logged
SvcKillDone(t) ==
    LET a == tasks[t].art IN
    /\ tasks[t].pc = "svc_kill_wait"
    /\ Exited(tasks[t].proc)
    /\ Commit([WaitReturned(St, RunnerOf(St, a)) EXCEPT !.tasks[t].pc = "svc_kill_log"])
    /\ UNCHANGED Rest

SvcKillLogDone(t) ==
    /\ tasks[t].pc = "svc_kill_log"
    /\ Commit(AfterStop(St, t, tasks[t].art))
    /\ UNCHANGED Rest

NextService ==
    \/ \E p \in Procs : ProcessExit(p)
    \/ \E a \in Artifacts : enable_service(a)
    \/ \E a \in Artifacts : disable_service(a)
    \/ \E a \in Artifacts : restart_service(a)
    \/ \E t \in Tasks : AutoStart(t)
    \/ \E t \in Tasks : RunLogDone(t)
    \/ \E t \in Tasks : CreateDone(t)
    \/ \E t \in Tasks : TermWaitDone(t)
    \/ \E t \in Tasks : TermTimeout(t)
    \/ \E t \in Tasks : KillWaitDone(t)
    \/ \E t \in Tasks : WatchStart(t)
    \/ \E t \in Tasks : WatchExit(t)
    \/ \E t \in Tasks : WatchLogDone(t)
    \/ \E t \in Tasks : RestartLogDone(t)
    \/ \E t \in Tasks : SvcTermDone(t)
    \/ \E t \in Tasks : SvcTermTimeout(t)
    \/ \E t \in Tasks : SvcTermLogDone(t)
    \/ \E t \in Tasks : SvcKillDone(t)
    \/ \E t \in Tasks : SvcKillLogDone(t)

SpecService == InitService /\ [][NextService]_vars

\* ------------------------------------------- a Service and its exit watcher
\* the Service left to its watcher: the one request callers make is
\* disable_service.  No second run is then ever in flight, so Runner.run
\* never finds a running process (TermWaitDone, TermTimeout, KillWaitDone
\* never apply)
TaskStep(t) ==
    \/ AutoStart(t)
    \/ RunLogDone(t)
    \/ CreateDone(t)
    \/ WatchStart(t)
    \/ WatchExit(t)
    \/ WatchLogDone(t)
    \/ SvcTermDone(t)
    \/ SvcTermTimeout(t)
    \/ SvcTermLogDone(t)
    \/ SvcKillDone(t)
    \/ SvcKillLogDone(t)

NextWatched ==
    \/ \E p \in Procs : ProcessExit(p)
    \/ \E a \in Artifacts : disable_service(a)
    \/ \E t \in Tasks : AutoStart(t)
    \/ \E t \in Tasks : RunLogDone(t)
    \/ \E t \in Tasks : CreateDone(t)
    \/ \E t \in Tasks : WatchStart(t)
    \/ \E t \in Tasks : WatchExit(t)
    \/ \E t \in Tasks : WatchLogDone(t)
    \/ \E t \in Tasks : SvcTermDone(t)
    \/ \E t \in Tasks : SvcTermTimeout(t)
    \/ \E t \in Tasks : SvcTermLogDone(t)
    \/ \E t \in Tasks : SvcKillDone(t)
    \/ \E t \in Tasks : SvcKillLogDone(t)

\* the event loop resumes every coroutine that can go on (a wait_for ends
\* by the exit or by its timeout); a process is never obliged to exit
SpecServiceFair ==
    InitService /\ [][NextWatched]_vars /\ \A t \in Tasks : WF_vars(TaskStep(t))

\* ------------------------------------------ operations on the repositories
\* Repository.new_release(tag) (tag push, on_update, create_release): the
\* Release is constructed, which loads it, and handed to Releases.new_release
new_release(repo, tag, time, apps) ==
    /\ repo \in repos
    /\ LET s1 == load(RS, repo, tag, 0, TRUE)
           s2 == Releases_new_release(s1, repo, tag, [time |-> time, apps |-> apps])
       IN RCommit(s2, Last("new_release", repo, tag, <<>>, s2))

\* Repository.delete_release(release) for a release get_release found
delete_release(repo, tag) ==
    /\ repo \in repos
    /\ rels[repo][tag] # NoRel
    /\ LET s1 == Releases_delete_release(RS, repo, tag)
       IN RCommit(s1, Last("delete_release", repo, tag, <<>>, s1))

\* another subscriber of the repository's releases registers its hooks:
\* Releases.add_new_hook, Releases.add_delete_hook
add_hooks(repo) ==
    /\ repo \in repos
    /\ Len(new_hooks[repo]) < MaxHooks
    /\ RCommit([RS EXCEPT !.new_hooks[repo] = Append(@, "probe"),
                          !.delete_hooks[repo] = Append(@, "probe")],
               Last("add_hooks", repo, "", <<>>, RS))

\* Script.run / Service.run of an object a user's index holds, up to
\* "if not self._release.loaded_on_disk: self._release.load()"
run_load(c, user, name, tag, tagged) ==
    LET o == get_object(Coll(RS, c).by_owner[user], name, tag)
        s1 == IF PathOf(o.repo, o.version, o.shared) \in disk THEN RS
              ELSE load(RS, o.repo, o.version, o.shared,
                        tagged \/ rels[o.repo][o.version] # NoRel)
    IN /\ o # NoObj
       /\ RCommit(s1, Last("load", user, tag, PathOf(o.repo, o.version, o.shared), s1))

\* a request of the user on the script or the service routes: the remover,
\* then the adder (an exception in one of them ends the request)
overlay(c, user, allowed, from, tagged) ==
    /\ user \in Users
    /\ LET C == Coll(RS, c)
           s1 == SetColl(RS, c, Remover(C, TypesOf(c), SharedOf(C, user), allowed))
           s2 == Adder(s1, c, user, allowed, from, tagged)
       IN RCommit(s2, Last("overlay", user, "", <<c, allowed, from>>, s2))

\* the tags pushed: repository 1 gets v1 and v2, repository 2 only v1, with
\* any of the manifests, all on commits of one time
RepoInputs ==
    {<<1, tag, 1, apps>> : tag \in Tags, apps \in Manifests}
        \cup {<<2, "v1", 1, apps>> : apps \in Manifests}

\* a request that names a Script or Service as <name>/latest (_script_by_id,
\* the webhook): the lookup, whose result the request then works on
latest(c, user, name) ==
    /\ user \in Users
    /\ RCommit(RS, Last("latest", user, "",
                        <<c, name, get_latest_for_user_named(Coll(RS, c), user, name)>>, RS))

NextRepo ==
    \/ \E rel \in RepoInputs : new_release(rel[1], rel[2], rel[3], rel[4])
    \/ \E repo \in Repos, tag \in Tags : delete_release(repo, tag)
    \/ add_hooks(1)
    \/ \E c \in CollNames, user \in Users, name \in {"app", "svc"}, tag \in Tags,
          tagged \in BOOLEAN : run_load(c, user, name, tag, tagged)

InitRepo ==
    /\ InitCommon
    /\ ports = SeedPorts(FirstPort, NumPorts)
    /\ tasks = [t \in Tasks |-> Idle]
    /\ file = [a \in Artifacts |-> "absent"]
    /\ runner = [r \in Runners |-> NoRunner]
    /\ art = [a \in Artifacts |-> NoArt]

SpecRepo == InitRepo /\ [][NextRepo]_vars

\* ------------------------------------------------- deleted repositories
\* the orders Releases._releases (a dict, in insertion order) can hold the
\* tags of a repository in; rels does not keep the order of insertion
Orders == {<<>>, <<"v1">>, <<"v2">>, <<"v1", "v2">>, <<"v2", "v1">>}
TagOrders(repo) ==
    {o \in Orders : {o[i] : i \in 1 .. Len(o)} = {t \in Tags : rels[repo][t] # NoRel}}

\* RepositoryHandler.delete_repo, on_project_remove: the repository and its
\* local clone are deleted at the git service and on disk, then
\* RepositoryCollection.delete_repo
delete_repo(repo, tags) ==
    /\ repo \in repos
    /\ tags \in TagOrders(repo)
    /\ LET s1 == Collection_delete_repo(RS, repo, tags)
       IN RCommit(s1, Last("delete_repo", repo, "", tags, s1))

NextRepoDelete ==
    \/ \E rel \in RepoInputs : new_release(rel[1], rel[2], rel[3], rel[4])
    \/ \E repo \in Repos, tag \in Tags : delete_release(repo, tag)
    \/ \E repo \in Repos, tags \in Orders : delete_repo(repo, tags)

SpecRepoDelete == InitRepo /\ [][NextRepoDelete]_vars

\* ------------------------------------------------------------ sharing
\* the tags pushed: both repositories declare the Script "app"; repository 1
\* gets v1 and v2 on commits of any time, repository 2 only v1
ShareInputs ==
    {<<1, tag, time, <<App("app", "python")>>>> : tag \in Tags, time \in Times}
        \cup {<<2, "v1", 1, <<App("app", "python")>>>>}

\* user 2 is the one user 1 shares with: the requests that evaluate the
\* overlay are user 2's, with any allowed_releases and with allowed_from_user
\* empty or naming user 1.  No deleted hook raises here (there is no
\* Service), so the tag of a deleted release is gone from the repository
NextShare ==
    \/ \E rel \in ShareInputs : new_release(rel[1], rel[2], rel[3], rel[4])
    \/ \E repo \in Repos, tag \in Tags : delete_release(repo, tag)
    \/ \E c \in CollNames, allowed \in GrantLists, from \in {<<>>, <<1>>} :
            overlay(c, 2, allowed, from, FALSE)
    \/ \E user \in Users : latest("scripts", user, "app")

SpecShare == InitRepo /\ [][NextShare]_vars

\* ------------------------------------------------------ a Service's log
\* what one os.read of the pseudo terminal returns (FileDescriptorStream
\* .readline is read(1024)): any characters the process wrote, whole lines
\* or not
Chunks == {<<x>> : x \in Texts \cup {"nl"}}
            \cup {<<x, y>> : x \in Texts \cup {"nl"}, y \in Texts \cup {"nl"}}

\* Service._write_to_log(data): header, data and a newline are appended
write_to_log(data) ==
    /\ Len(log) + 3 <= MaxLog
    /\ log' = log \o <<"h", data, "nl">>
    /\ UNCHANGED <<read, RunVars, RepoVars>>

\* Service._log_task, one round: header and what the stream gave are
\* appended
log_task(chunk) ==
    /\ Len(log) + 1 + Len(chunk) <= MaxLog
    /\ log' = log \o <<"h">> \o chunk
    /\ UNCHANGED <<read, RunVars, RepoVars>>

\* ServiceHandler.get_logs: service.get_logs(limit); the block size, 8192
\* characters in the program, is taken from 1 .. MaxBuf so that lines are
\* shorter than, as long as, and longer than a block
get_logs_request(limit, buf_size) ==
    /\ read' = [limit |-> limit, buf_size |-> buf_size, content |-> log,
                text |-> get_logs(log, limit, buf_size)]
    /\ UNCHANGED <<log, RunVars, RepoVars>>

NextLogs ==
    \/ \E data \in Texts : write_to_log(data)
    \/ \E chunk \in Chunks : log_task(chunk)
    \/ \E limit \in 0 .. MaxLimit, buf_size \in 1 .. MaxBuf : get_logs_request(limit, buf_size)

SpecLogs == InitRepo /\ [][NextLogs]_vars

\* ------------------------------------------------------- the adder alone
\* create_extra_adder's function evaluated for a user: the grants are
\* allowed_releases and allowed_from_user of the user's user_data
extra_adder(c, user, allowed, from) ==
    /\ user \in Users
    /\ LET s1 == Adder(RS, c, user, allowed, from, FALSE)
       IN RCommit(s1, Last("adder", user, "", <<c, allowed, from>>, s1))

\* the tags pushed: both repositories declare the Script "app", on commits
\* of one time
AdderInputs ==
    {<<1, tag, 1, <<App("app", "python")>>>> : tag \in Tags}
        \cup {<<2, "v1", 1, <<App("app", "python")>>>>}

\* allowed_releases of the users the adder is evaluated for
AdderGrants == {<<>>, <<<<"python", "app", "v1">>>>, <<<<"python", "app", "latest">>>>,
                <<<<"service", "svc", "v1">>>>}

\* user 2 is granted releases of user 1 or trusts user 1; user 3 is granted
\* releases or trusts user 2
NextAdder ==
    \/ \E rel \in AdderInputs : new_release(rel[1], rel[2], rel[3], rel[4])
    \/ \E repo \in Repos, tag \in Tags : delete_release(repo, tag)
    \/ \E user \in {2, 3}, allowed \in AdderGrants, trusts \in BOOLEAN :
            extra_adder("scripts", user, allowed, IF trusts THEN <<user - 1>> ELSE <<>>)

SpecAdder == InitRepo /\ [][NextAdder]_vars

\* ------------------------------------------- a shared Script and its process
\* user 1's repository has the release v1 with the Script "app"; user 2 is
\* granted it or not, request by request, and runs the shared clone.  Here
\* the Script objects behind user 2's index entry are followed: an artifact
\* and its Runner per clone made
SharedGrants == {<<>>, <<<<"python", "app", "v1">>>>, <<<<"service", "svc", "v1">>>>}

\* an artifact slot holds no object any more: nothing was put there, or the
\* object is out of the index, has no coroutine and no running process
Unused(b, kept) ==
    \/ art[b].type = "none"
    \/ /\ ~(kept /\ proj = b)
       /\ \A t \in Tasks : tasks[t].art # b
       /\ ~is_running(St, art[b].runner)

\* the router's dependencies of a request of user 2 on the script routes:
\* the remover, then the adder.  The remover takes objects out of the index
\* and does nothing else to them; the adder's obj.clone_to_shared makes a new
\* Script with a cloned Runner.  s is the runners' side of the state after
\* both, proj the artifact the index then holds, ok whether the model has a
\* slot for the clone
Overlaid(allowed) ==
    LET C1 == Remover(scripts, ScriptsTypes, SharedOf(scripts, 2), allowed)
        s2 == Adder(SetColl(RS, "scripts", C1), "scripts", 2, allowed, <<>>, FALSE)
        kept == has_object(C1, 2, "app", "v1")
        fresh == ~kept /\ has_object(s2.scripts, 2, "app", "v1")
        slots == {b \in Artifacts : Unused(b, kept)}
        b == IF slots = {} THEN 0 ELSE MinOf(slots)
    IN [s |-> IF fresh /\ b # 0
              THEN [St EXCEPT !.art[b] = NewArt("python", b, TRUE),
                              !.runner[b] = RunnerIn("python", "shared")]
              ELSE St,
        proj |-> IF fresh THEN b ELSE IF kept THEN proj ELSE 0,
        ok |-> fresh => slots # {},
        scripts |-> s2.scripts,
        disk |-> s2.disk,
        last |-> Last("overlay", 2, "", <<"scripts", allowed, <<>>>>, s2)]

\* what is left of a request once the dependencies have run and the handler
\* has run to its first suspension
Served(o, s) ==
    /\ o.ok /\ s.ok
    /\ scripts' = o.scripts
    /\ disk' = o.disk
    /\ last' = o.last
    /\ proj' = o.proj
    /\ ports' = s.ports
    /\ runner' = s.runner
    /\ procs' = Reaped(s)
    /\ art' = s.art
    /\ tasks' = s.tasks
    /\ file' = s.file
    /\ ev' = s.ev
    /\ UNCHANGED <<rels, new_hooks, delete_hooks, services, repos, LogVars, held, got, alias>>

\* ScriptHandler.get_scripts (or any request that _script_by_id answers 404)
get_scripts(allowed) ==
    /\ allowed \in SharedGrants
    /\ Served(Overlaid(allowed), Overlaid(allowed).s)
    /\ UNCHANGED <<nops, nstops>>

\* ScriptHandler.run_script on app/v1 (HTTP 400 when the Script the index
\* holds by now is running)
run_shared(allowed) ==
    LET o == Overlaid(allowed)
        t == MinOf(FreeTasks(o.s))
    IN
    /\ o.proj # 0 /\ FreeTasks(o.s) # {}
    /\ nops < MaxRuns
    /\ ~is_running(o.s, RunnerOf(o.s, o.proj))
    /\ Served(o, ScriptRun(Begin(o.s, o.proj, "run"), t, o.proj))
    /\ nops' = nops + 1
    /\ UNCHANGED nstops

\* ScriptHandler.kill_script on app/v1 (HTTP 400 unless that Script is running)
kill_shared(allowed) ==
    LET o == Overlaid(allowed)
        t == MinOf(FreeTasks(o.s))
        p == o.s.runner[RunnerOf(o.s, o.proj)].proc
    IN
    /\ o.proj # 0 /\ FreeTasks(o.s) # {}
    /\ nstops < MaxStops
    /\ is_running(o.s, RunnerOf(o.s, o.proj))
    /\ Served(o, [Signal(Begin(o.s, o.proj, "kill"), p, 2)
                     EXCEPT !.tasks[t].pc = "end_wait", !.tasks[t].proc = p])
    /\ nstops' = nstops + 1
    /\ UNCHANGED nops

NextProjected ==
    \/ new_release(1, "v1", 1, <<App("app", "python")>>)
    \/ \E allowed \in SharedGrants : get_scripts(allowed)
    \/ \E allowed \in SharedGrants : run_shared(allowed)
    \/ \E allowed \in SharedGrants : kill_shared(allowed)
    \/ \E p \in Procs : ProcessExit(p)
    \/ \E t \in Tasks : CreateDone(t)
    \/ \E t \in Tasks : WatchStart(t)
    \/ \E t \in Tasks : WatchExit(t)
    \/ \E t \in Tasks : EndWaitDone(t)

SpecProjected == InitRepo /\ [][NextProjected]_vars

\* ------------------------------------------ a Service and its Release
\* the Service svc of release v1 of repository 1 and the snapshot it runs in
SvcPath == PathOf(1, "v1", 0)

\* the ways git_copy_tagged_version can end: the tree is written; the tag
\* does not resolve (resolve_refish raises before anything is written); a
\* makedirs or a write fails after the folder has been made
Checkouts == {"done", "no tag", "io error"}

\* git_copy_tagged_version: os.makedirs(..., exist_ok=True) and the write of
\* each entry, with nothing that removes what was written when one fails
git_copy_tagged_version(s, path, out) ==
    IF out = "done" THEN [s EXCEPT !.disk = @ \cup {path}, !.checkouts = @ + 1]
    ELSE IF out = "no tag" THEN [s EXCEPT !.raised = TRUE]
    ELSE [s EXCEPT !.disk = @ \cup {path}, !.raised = TRUE]

\* what a step that works on the repositories and on the runners leaves
Both(r, l, s) ==
    /\ s.ok
    /\ rels' = r.rels
    /\ new_hooks' = r.new_hooks
    /\ delete_hooks' = r.delete_hooks
    /\ scripts' = r.scripts
    /\ services' = r.services
    /\ disk' = r.disk
    /\ repos' = r.repos
    /\ last' = l
    /\ ports' = s.ports
    /\ runner' = s.runner
    /\ procs' = Reaped(s)
    /\ art' = s.art
    /\ tasks' = s.tasks
    /\ file' = s.file
    /\ ev' = s.ev
    /\ UNCHANGED <<proj, LogVars, Rest>>

\* release v1 of repository 1 has been registered with a manifest that
\* declares the Service svc; its snapshot is on disk and holds svc.enabled
\* with "true", so Service.__init__ has scheduled self.run()
InitReleased ==
    /\ held = [c \in 1 .. NumClients |-> {}]
    /\ got = None
    /\ alias = "unknown"
    /\ nops = 0
    /\ nstops = 0
    /\ ev = Ev("none", 0, FALSE)
    /\ log = <<>>
    /\ read = NoRead
    /\ procs = [p \in Procs |-> NoProc]
    /\ ports = SeedPorts(FirstPort, NumPorts)
    /\ file = [a \in Artifacts |-> IF a = 1 THEN JsonDumps(TRUE) ELSE "absent"]
    /\ runner = [r \in Runners |-> IF r = 1 THEN RunnerIn("python", "release") ELSE NoRunner]
    /\ art = [a \in Artifacts |-> IF a = 1 THEN NewService(1, JsonDumps(TRUE)) ELSE NoArt]
    /\ tasks = [t \in Tasks |-> IF t = 1 THEN Task("auto", 1, "auto", None) ELSE Idle]
    /\ new_hooks = [r \in Repos |-> <<"collection">>]
    /\ delete_hooks = [r \in Repos |-> <<"collection">>]
    /\ repos = Repos
    /\ proj = 0
    /\ disk = {SvcPath}
    /\ \E apps \in {m \in Manifests : \E i \in 1 .. Len(m) : m[i].name = "svc"} :
          /\ rels = [r \in Repos |-> [t \in Tags |->
                        IF r = 1 /\ t = "v1" THEN [time |-> 1, apps |-> apps] ELSE NoRel]]
          /\ scripts = IF Len(apps) = 2 THEN new_object(NewCollection, Obj(1, "app", "v1", 1, 0))
                       ELSE NewCollection
          /\ services = new_object(NewCollection, Obj(1, "svc", "v1", 1, 0))
          /\ last = [op |-> "new_release", who |-> 1, tag |-> "v1", arg |-> <<>>,
                     fired |-> <<<<"collection", 1, "v1">>>>, checkouts |-> 0,
                     cloned |-> <<>>, raised |-> FALSE]

\* Repository.delete_release of v1 (the route, or the tag push that deletes
\* the tag): Releases.delete_release, whose collection hook schedules
\* service.kill() for a Service it deletes while its runner is running.  The
\* run that __init__ scheduled has started by then: the loop runs what is
\* ready before it takes the next request
purge_release ==
    LET r1 == Releases_delete_release(RS, 1, "v1")
        deleted == has_object(services, 1, "svc", "v1")
                      /\ ~has_object(r1.services, 1, "svc", "v1")
        s1 == IF deleted /\ is_running(St, RunnerOf(St, 1))
              THEN ensure_future(St, Task("purge_kill", 1, "purge", None))
              ELSE St
    IN
    /\ rels[1]["v1"] # NoRel
    /\ \A t \in Tasks : tasks[t].pc # "auto"
    /\ Both(r1, Last("delete_release", 1, "v1", <<>>, r1), s1)

\* the scheduled service.kill() starts: Runner.kill up to "await self.wait()"
PurgeKill(t) ==
    /\ tasks[t].pc = "purge_kill"
    /\ Commit(ServiceKill(St, t, tasks[t].art))
    /\ UNCHANGED Rest

\* Service.run from its first line, called by __init__'s task or by
\* _wait_task of an enabled Service: the Release is loaded when its path does
\* not exist, and an exception of the checkout leaves run and the task.  The
\* tag resolves as long as the release is registered
Service_run(t, out) ==
    LET a == tasks[t].art
        r1 == IF SvcPath \in disk THEN RS ELSE git_copy_tagged_version(RS, SvcPath, out)
    IN
    /\ tasks[t].pc \in {"auto", "w_log"}
    /\ tasks[t].pc = "w_log" => art[a].enabled
    /\ out = "no tag" => rels[1]["v1"] = NoRel
    /\ Both(r1, Last("load", 1, "v1", SvcPath, r1),
            IF r1.raised THEN Finish(St, t, Ev("load_raised", a, FALSE))
            ELSE ServiceRun(St, t, a))

\* the Service, its watcher and the deletion of its release
NextPurge ==
    \/ \E p \in Procs : ProcessExit(p)
    \/ purge_release
    \/ \E t \in Tasks : PurgeKill(t)
    \/ \E t \in Tasks, out \in Checkouts : Service_run(t, out)
    \/ \E t \in Tasks : RunLogDone(t)
    \/ \E t \in Tasks : CreateDone(t)
    \/ \E t \in Tasks : WatchStart(t)
    \/ \E t \in Tasks : WatchExit(t)
    \/ \E t \in Tasks : SvcKillDone(t)
    \/ \E t \in Tasks : SvcKillLogDone(t)

SpecPurge == InitReleased /\ [][NextPurge]_vars

\* ============================================================== properties
LivePortProcs == {p \in Procs : Running(p) /\ procs[p].port # None}

\* C2: no two live streamlit processes were launched on the same port (no
\* two Runners with a live process hold one port), and no port a live
\* process was launched on is in the pool's available set
C2_PortsExclusive ==
    /\ \A p, q \in LivePortProcs : p # q => procs[p].port # procs[q].port
    /\ \A p \in LivePortProcs : procs[p].port \notin ports

\* C4: in the state Script.run returns in, ready = false gives INACTIVE and
\* ready = true gives ACTIVE with a port exactly for a streamlit Script
C4_RunResult ==
    ev.kind = "run_ret" =>
        /\ ~ev.ready => art[ev.art].state = "inactive"
        /\ ev.ready =>
              /\ art[ev.art].state = "active"
              /\ (art[ev.art].port # None) <=> (art[ev.art].type = "streamlit")

\* C5: a Script.run issued while the Script's process is running fails at
\* once: it is never found terminating that process in order to launch
\* another one
C5_RunWhileRunningFails ==
    \A t \in Tasks :
        tasks[t].pc \in {"term_wait", "kill_wait"} => ~IsScript(St, tasks[t].art)

\* what the claim calls an artifact's process, state, port and exit_code:
\* the object's fields, its Runner's fields and the processes of its Runner
ProcessesOf(r) == [p \in Procs |-> IF procs[p].owner = r THEN procs[p] ELSE NoProc]
ArtView(b) == <<art[b], runner[art[b].runner], ProcessesOf(art[b].runner)>>

\* this step is a step of a coroutine working on artifact a
ActsOn(a) ==
    \E t \in Tasks : tasks'[t] # tasks[t] /\ (tasks[t].art = a \/ tasks'[t].art = a)

\* C10: a step of a request or watcher on one artifact (run, terminate, kill
\* on a clone or on the original) leaves every other artifact's process,
\* Runner, state, port and exit_code as they were
C10_CloneIndependent ==
    [][\A a, b \in Artifacts :
          (a # b /\ art[b].type # "none" /\ ActsOn(a) /\ ~ActsOn(b))
              => ArtView(b)' = ArtView(b)]_vars

\* both copies ran, the clone was signalled and has exited, the original
\* still runs
C10_Witness ==
    \E a, b \in Artifacts :
        /\ ~art[a].shared /\ art[b].shared /\ art[b].type # "none"
        /\ is_running(St, art[a].runner) /\ art[a].state = "active"
        /\ runner[art[b].runner].proc # None
        /\ procs[runner[art[b].runner].proc].status = "exited"
        /\ procs[runner[art[b].runner].proc].sig > 0

\* C1: a port is out of the pool while a caller holds it and no two callers
\* hold the same port: between two acquires that return one port there is a
\* release of it
C1_NoDoubleAcquire ==
    /\ \A c, d \in 1 .. NumClients : c # d => held[c] \cap held[d] = {}
    /\ \A c \in 1 .. NumClients : held[c] \cap ports = {}

\* the smallest port was given out, released and given out again to another
\* caller while a later port is still held
C1_Witness ==
    \E c, d \in 1 .. NumClients :
        /\ c # d
        /\ got = FirstPort /\ got \in held[d]
        /\ FirstPort + 1 \in held[c]

LiveOf(r) == {p \in Procs : Running(p) /\ procs[p].owner = r}

\* C3: a Runner never has two live processes, and every live process is the
\* Runner's self._proc or is about to be assigned to it
C3_OneLiveProcess ==
    \A r \in Runners :
        /\ Cardinality(LiveOf(r)) <= 1
        /\ \A p \in LiveOf(r) : runner[r].proc = p \/ \E t \in Tasks : tasks[t].np = p

\* every process of the Service exits, with a nonzero code
Crashes == \A p \in Procs : procs[p].status = "exited" => procs[p].code # 0

\* C6: an enabled Service left to itself whose program always exits with a
\* nonzero code eventually is FAILED_TO_START
C6_FailedToStart ==
    (/\ art[1].enabled
     /\ [](nops = 0)
     /\ []Crashes
     /\ \A p \in Procs : []<>(~Running(p)))
        => <>(art[1].state = "failed to start")

\* the only coroutine of Service a is its exit watcher
OnlyWatcher(a) ==
    /\ \A t \in Tasks : tasks[t].art = a => tasks[t].op = "watch"
    /\ Cardinality({t \in Tasks : tasks[t].art = a}) = 1

\* an enabled ACTIVE Service whose process has exited, no request in flight
ExitedWhileActive(a) ==
    /\ art[a].type = "service" /\ art[a].enabled /\ art[a].state = "active"
    /\ runner[art[a].runner].proc # None
    /\ Exited(runner[art[a].runner].proc)
    /\ OnlyWatcher(a)
    /\ FreeProcs(St) # {}

\* C7: from there, unless a caller steps in, the Service becomes INACTIVE,
\* then STARTING, then ACTIVE with a running process of its own
C7_AutoRestart ==
    \A n \in 0 .. MaxReqs :
        /\ (ExitedWhileActive(1) /\ nops = n)
               ~> ((art[1].state = "inactive" /\ art[1].started_at = 0) \/ nops # n)
        /\ (ExitedWhileActive(1) /\ nops = n)
               ~> ((art[1].state = "starting" /\ art[1].started_at = 0) \/ nops # n)
        /\ (art[1].state = "starting" /\ art[1].started_at = 0 /\ art[1].enabled /\ nops = n
                /\ FreeProcs(St) # {})
               ~> ((art[1].state = "active" /\ art[1].started_at = 1) \/ nops # n)

\* the Service was re-run by its watcher alone and is ACTIVE again with a
\* live process after an earlier process of it was seen to exit
C7_Witness ==
    /\ nops = 0
    /\ art[1].type = "service" /\ art[1].state = "active"
    /\ art[1].exit_code # NoCode
    /\ is_running(St, art[1].runner)
    /\ OnlyWatcher(1)

\* C8: once set_enabled(False) has returned for a Service that was STARTING
\* or ACTIVE, the Service eventually is INACTIVE without a live process,
\* unless a caller asks for it again
C8_DisabledStaysStopped ==
    \A n \in 0 .. MaxReqs :
        (ev.kind = "disabled" /\ ev.ready /\ nops = n)
            ~> ((art[1].state = "inactive" /\ LiveOf(art[1].runner) = {}) \/ nops # n)

\* a coroutine works for, or a process belongs to, Service a
Started(a) ==
    \/ \E t \in Tasks : tasks[t].art = a
    \/ \E p \in Procs : procs[p].status # "unused" /\ procs[p].owner = art[a].runner

\* C9: as long as no caller has asked for anything, the Service is enabled
\* exactly when its file holds what set_enabled(True) writes; then its run has
\* been scheduled; otherwise it is INACTIVE, with no coroutine and no process
C9_PersistedFlag ==
    \A a \in Artifacts :
        (art[a].type = "service" /\ nops = 0) =>
            /\ art[a].enabled <=> (file[a] = JsonDumps(TRUE))
            /\ art[a].enabled => Started(a)
            /\ ~art[a].enabled => (art[a].state = "inactive" /\ ~Started(a))

\* the flag was true on disk, and the Service got ACTIVE by itself
C9_Witness ==
    /\ nops = 0
    /\ file[1] = JsonDumps(TRUE)
    /\ art[1].type = "service" /\ art[1].state = "active"
    /\ is_running(St, art[1].runner)

\* some caller holds a port it did not hold before: an acquire_port returned
Acquired == \E c \in 1 .. NumClients : held'[c] # held[c] /\ held[c] \subseteq held'[c]

\* C18: acquire_port on an empty pool returns at once without a port (it
\* raises), no caller gets anything and the pool stays as it is; every port
\* is then still held by someone, so the release of any of them refills the
\* pool with exactly that port
C18_ExhaustedFails ==
    [][ports = {} =>
          /\ (ports' = {} => (got' = None /\ held' = held))
          /\ (ports' # {} =>
                \E c \in 1 .. NumClients : \E p \in held[c] :
                    /\ ports' = {p}
                    /\ UNION {held'[d] : d \in 1 .. NumClients} \cup ports'
                          = SeedPorts(FirstPort, PoolSize))]_vars

\* the pool is empty and the last acquire_port raised
C18_Witness ==
    /\ ports = {}
    /\ got = None
    /\ UNION {held[c] : c \in 1 .. NumClients} = SeedPorts(FirstPort, PoolSize)

\* C19: the port an acquire_port returns was available, no available port
\* was smaller, and it is the one port that left the pool
C19_AcquireMin ==
    [][Acquired =>
          /\ got' \in ports
          /\ \A q \in ports : got' <= q
          /\ ports' = ports \ {got'}
          /\ \E c \in 1 .. NumClients : held'[c] = held[c] \cup {got'}]_vars

\* ports were given back out of order and the smallest available one, below
\* a port still held, was handed out again
C19_Witness ==
    /\ got = FirstPort + 1
    /\ FirstPort + 1 \in UNION {held[c] : c \in 1 .. NumClients}
    /\ FirstPort \in UNION {held[c] : c \in 1 .. NumClients}
    /\ FirstPort + 2 \in ports
    /\ FirstPort + 3 \in UNION {held[c] : c \in 1 .. NumClients}

\* the coroutines inside Runner.wait (or wait_for(Runner.wait)) on process p
WaitersOf(p) == {t \in Tasks : p # None /\ tasks[t].proc = p}

\* C17: whichever of the waiters of a process resumes, the port it hands
\* back is the port of the process it awaited, unless an earlier waiter of
\* that process has handed it back already (then it hands back nothing): the
\* port of the process is released exactly once
C17_ReleasedOnce ==
    \A p \in Procs :
        (WaitersOf(p) # {} /\ procs[p].port # None) =>
            runner[procs[p].owner].port \in {None, procs[p].port}

\* the objects a collection holds in the index of user u
IndexOf(C, u) == {C.by_owner[u][i] : i \in 1 .. Len(C.by_owner[u])}

\* ... and in any owner index
ObjectsOf(C) == UNION {IndexOf(C, u) : u \in Users}

\* C11: a name is available to a repository exactly when no other repository
\* has a published (non-shared) artifact of that name in the collection
C11_NameAvailable ==
    \A c \in CollNames, name \in {"app", "svc"}, repoX \in Repos :
        is_name_available(Coll(RS, c), name, repoX)
            <=> ~\E o \in ObjectsOf(Coll(RS, c)) :
                    o.shared = 0 /\ o.repo # repoX /\ o.name = name

\* the objects of a collection's canonical index
CanonicalOf(C) == {C.by_name[i] : i \in 1 .. Len(C.by_name)}

\* C12: once a release of a repository has been deleted, no Script and no
\* Service of that release, original or shared clone, is left in an owner
\* index or in the canonical index
C12_ReleasePurged ==
    last.op = "delete_release" =>
        \A c \in CollNames :
            \A o \in ObjectsOf(Coll(RS, c)) \cup CanonicalOf(Coll(RS, c)) :
                ~(o.repo = last.who /\ o.version = last.tag)

\* C13: after Releases.delete_release the release is out of the set and its
\* snapshot is off the disk, whether or not a deleted hook raised
C13_DeleteEvicts ==
    last.op = "delete_release" =>
        /\ rels[last.who][last.tag] = NoRel
        /\ PathOf(last.who, last.tag, 0) \notin disk

\* C14: Releases.new_release of a tag that is present changes neither the
\* set of releases nor the hooks nor the collections and calls no hook; of a
\* new tag it inserts the release and calls each registered created hook
\* once, in registration order, with that repository and release
C14_NewReleaseOnce ==
    [][last'.op = "new_release" =>
          LET repo == last'.who
              tag == last'.tag
          IN IF rels[repo][tag] # NoRel
             THEN /\ UNCHANGED <<rels, new_hooks, delete_hooks, scripts, services>>
                  /\ last'.fired = <<>>
             ELSE /\ rels'[repo][tag] # NoRel
                  /\ \A r \in Repos, t \in Tags :
                        <<r, t>> # <<repo, tag>> => rels'[r][t] = rels[r][t]
                  /\ last'.fired = [i \in 1 .. Len(new_hooks[repo]) |->
                                        <<new_hooks[repo][i], repo, tag>>]]_vars

\* a new tag of a repository with two created hooks was registered and both
\* hooks were called
C14_Witness ==
    /\ last.op = "new_release"
    /\ Len(last.fired) = 2
    /\ rels[last.who][last.tag] # NoRel

\* the snapshot path the last operation materialized (Release.load)
LoadedPath(l) == IF l.op = "load" THEN l.arg ELSE PathOf(l.who, l.tag, 0)

\* C15: materializing a Release whose path is on disk checks nothing out and
\* leaves the disk as it is; materializing one whose path is not on disk
\* checks out at most once, and then the path is on disk, so that a second
\* load finds it
C15_LoadOnce ==
    [][last'.op \in {"load", "new_release"} =>
          LET path == LoadedPath(last')
          IN IF path \in disk
             THEN last'.checkouts = 0 /\ disk' = disk
             ELSE /\ last'.checkouts <= 1
                  /\ (last'.checkouts = 1) <=> (path \in disk')
                  /\ disk' \subseteq disk \cup {path}]_vars

\* the Release of a tag was constructed a second time (the tag was pushed or
\* listed again) and its load found the snapshot of the first
C15_Witness ==
    /\ last.op = "new_release"
    /\ last.checkouts = 0
    /\ last.fired = <<>>
    /\ rels[last.who][last.tag] # NoRel
    /\ PathOf(last.who, last.tag, 0) \in disk

\* C20: the lookup of <name>/latest for a user returns None exactly when the
\* user's index has no version of the name, and otherwise one of the user's
\* versions of the name, whose release.time no other version exceeds
C20_Latest ==
    last.op = "latest" =>
        LET found == last.arg[3]
            versions == {o \in IndexOf(Coll(RS, last.arg[1]), last.who) : o.name = last.arg[2]}
        IN /\ (found = NoObj) <=> (versions = {})
           /\ found # NoObj =>
                 /\ found \in versions
                 /\ \A o \in versions : o.time <= found.time

\* user 2 holds the shared v1 and v2 of "app", v1 tagged on the later commit,
\* and the lookup returned v1
C20_Witness ==
    /\ last.op = "latest" /\ last.who = 2
    /\ last.arg[3] # NoObj
    /\ last.arg[3].version = "v1" /\ last.arg[3].repo = 1
    /\ \E o \in IndexOf(scripts, 2) :
          o.name = "app" /\ o.version = "v2" /\ o.time < last.arg[3].time

\* object o of collection c matches an active grant of the user: an entry
\* type;name;version of allowed_releases of this collection's type that names
\* it (or names the latest version of its name, which it is), or an
\* allowed_from_user whose index holds it
Granted(o, c, allowed, from) ==
    \/ \E i \in 1 .. Len(allowed) :
          /\ Len(allowed[i]) = 3
          /\ allowed[i][1] \in TypesOf(c)
          /\ allowed[i][2] = o.name
          /\ \/ allowed[i][3] = o.version
             \/ /\ allowed[i][3] = "latest"
                /\ get_latest_for_name(Coll(RS, c), o.name).version = o.version
    \/ \E j \in 1 .. Len(from) : has_object(Coll(RS, c), from[j], o.name, o.version)

\* C16: after the remover and the adder have run for a user, every shared
\* artifact in the user's index matches one of the user's active grants
C16_OverlayExact ==
    (last.op = "overlay" /\ ~last.raised) =>
        \A o \in IndexOf(Coll(RS, last.arg[1]), last.who) :
            OwnerOf(o.repo) # last.who => Granted(o, last.arg[1], last.arg[2], last.arg[3])

\* C21: get_logs(limit) returns the last min(limit, number of lines) lines
\* of the log file, in the order of the file, joined by newlines, whatever
\* the content and the block size
C21_LastLines ==
    read.limit >= 0 =>
        LET L == splitlines(read.content)
            k == IF read.limit < Len(L) THEN read.limit ELSE Len(L)
        IN read.text = JoinLines(SubSeq(L, Len(L) - k + 1, Len(L)))

C23_RepoPurged ==
    last.op = "delete_repo" =>
        /\ \A tag \in Tags :
              rels[last.who][tag] # NoRel => PathOf(last.who, tag, 0) \notin disk
        /\ \A c \in CollNames :
              \A o \in ObjectsOf(Coll(RS, c)) \cup CanonicalOf(Coll(RS, c)) :
                  o.repo # last.who

\* the process of artifact b runs and no signal was sent to it
RunsUnstopped(b, R, P) ==
    /\ R[b].proc # None
    /\ P[R[b].proc].status = "running"
    /\ P[R[b].proc].sig = 0

\* C24: when a request's remover takes a shared Script out of the user's
\* index, the Script's process is not left running: it has exited or it was
\* sent a signal by then
C24_StoppedBeforeDropped ==
    [][\A b \in Artifacts :
          (proj = b /\ proj' # b) => ~RunsUnstopped(art[b].runner, runner', procs')]_vars

\* the grant python;app;v1 is among the user's allowed_releases
GrantActive(allowed) == \E i \in 1 .. Len(allowed) : allowed[i] = <<"python", "app", "v1">>

\* C25: a request made while the grant of the projected shared Script is
\* active leaves that Script in the index: the same object with the same
\* Runner, and, when the request's handler does nothing to it, the same
\* fields and the same process
C25_GrantedKept ==
    [][\A allowed \in SharedGrants :
          (proj # 0 /\ GrantActive(allowed)) =>
              /\ (get_scripts(allowed) \/ run_shared(allowed) \/ kill_shared(allowed)) =>
                    /\ proj' = proj
                    /\ art'[proj].runner = art[proj].runner
              /\ get_scripts(allowed) =>
                    /\ art'[proj] = art[proj]
                    /\ runner'[art[proj].runner] = runner[art[proj].runner]]_vars

\* no (name, version) occurs twice in the list
OnePerKey(L) == \A i, j \in 1 .. Len(L) : L[i] = L[j] => i = j

\* the (name, version) of the objects of an index, in its order
KeysOf(B) == [i \in 1 .. Len(B) |-> <<B[i].name, B[i].version>>]

C27_TrustProjectsOwned ==
    [][(last'.op = "adder" /\ last'.arg[3] # <<>> /\ ~last'.raised) =>
          LET user == last'.who
              from == last'.arg[3][1]
              c == last'.arg[1]
          IN
          /\ \A o \in IndexOf(Coll(RS', c), from) :
                OwnerOf(o.repo) = from =>
                    \E p \in IndexOf(Coll(RS', c), user) :
                        /\ p.shared = user /\ p.repo = o.repo
                        /\ p.name = o.name /\ p.version = o.version
          /\ last'.arg[2] = <<>> =>
                \A p \in IndexOf(Coll(RS', c), user) \ IndexOf(Coll(RS, c), user) :
                    OwnerOf(p.repo) = from]_vars

CallsRun(t) ==
    \/ AutoStart(t)
    \/ WatchLogDone(t) /\ art[tasks[t].art].enabled

C30_ExitRecorded ==
    \A p \in Procs : \A c \in ExitCodes :
        (procs[p].status = "exited" /\ procs[p].code = c /\ procs[p].owner = art[1].runner)
            ~> (art[1].exit_code = c /\ art[1].port = None /\ art[1].state = "inactive")

\* C31: once a streamlit process has exited, the port it was launched on is
\* eventually in the pool's available set
C31_PortReturned ==
    \A p \in Procs : \A q \in SeedPorts(FirstPort, NumPorts) :
        (procs[p].status = "exited" /\ procs[p].port = q) ~> (q \in ports)

\* C32: a Runner.run that finds the process running sends it the terminate
\* signal and spawns nothing in that step; a kill follows only on the timeout
\* of the wait, with the process still running, and goes to that process;
\* the launch follows only when the process has exited
C32_TerminateBeforeSpawn ==
    [][\A t \in Tasks :
          /\ (tasks[t].pc # "term_wait" /\ tasks'[t].pc = "term_wait") =>
                /\ procs[tasks'[t].proc].status = "running"
                /\ procs'[tasks'[t].proc].sig >= 1
                /\ \A p \in Procs : procs[p].status = "unused" => procs'[p].status = "unused"
          /\ (tasks[t].pc = "term_wait" /\ tasks'[t].pc = "kill_wait") =>
                /\ procs[tasks[t].proc].status = "running"
                /\ tasks'[t].proc = tasks[t].proc
                /\ procs'[tasks[t].proc].sig = 2
          /\ (tasks[t].pc \in {"term_wait", "kill_wait"} /\ tasks'[t].pc = "create") =>
                procs[tasks[t].proc].status = "exited"]_vars

\* nothing has happened to the processes that run
LiveUntouched == \A p \in Procs : procs[p].status = "running" => procs'[p] = procs[p]

\* C33: the cancellation of an observer's task changes no running process,
\* no Runner, no Script and no other task; the timeout of a stop request's
\* wait ends no process, lowers no signal already sent, and touches no
\* other task (where Script.terminate catches the timeout nothing is sent
\* at all); and an exit watcher that resumes records the exit code of the
\* process it awaited and the state INACTIVE
C33_WaitersDoNotKill ==
    [][\A t \in Tasks :
          /\ ObserverGone(t) =>
                /\ LiveUntouched
                /\ runner' = runner /\ art' = art /\ ports' = ports
                /\ \A u \in Tasks \ {t} : tasks'[u] = tasks[u]
          /\ StopTimeout(t) =>
                /\ \A p \in Procs :
                      procs[p].status = "running" =>
                          /\ procs'[p].status = "running"
                          /\ procs'[p].sig >= procs[p].sig
                /\ runner' = runner /\ art' = art /\ ports' = ports
                /\ \A u \in Tasks \ {t} : tasks'[u] = tasks[u]
                /\ alias' = "yes" => LiveUntouched
          /\ WatchExit(t) =>
                /\ art'[tasks[t].art].exit_code = procs[tasks[t].proc].code
                /\ art'[tasks[t].art].state = "inactive"]_vars

\* an observer has disconnected while the process, already sent the
\* terminate signal, still runs and the Script's exit watcher awaits it
C33_Witness ==
    /\ ev.kind = "cancelled"
    /\ \E p \in Procs :
          /\ procs[p].status = "running"
          /\ procs[p].sig = 1
          /\ \E u \in Tasks : tasks[u].pc = "w_wait" /\ tasks[u].proc = p

\* the ports the Runners hold: StreamlitVenvRunner._port of every Runner, and
\* the port every process that runs was launched on
HeldPorts ==
    ({runner[r].port : r \in Runners}
        \cup {procs[p].port : p \in {x \in Procs : procs[x].status = "running"}}) \ {None}

\* C35: the pool's available set and the ports the Runners hold partition
\* the configured range: a port out of the pool is held by a Runner (no port
\* is lost), and a port in the pool is held by none
C35_PortsConserved ==
    \A q \in SeedPorts(FirstPort, NumPorts) : (q \in ports) <=> (q \notin HeldPorts)

\* the Script shows the run that is current: ACTIVE, the port of its Runner,
\* and the Runner's run_start_event set
Settled(a) ==
    /\ art[a].state = "active"
    /\ art[a].port = runner[art[a].runner].port
    /\ runner[art[a].runner].event

\* the process that is the Runner's self._proc runs, before and after the
\* step, and no Script.run of the artifact is under way
StaysCurrent(a) ==
    LET p == runner[art[a].runner].proc IN
    /\ p # None
    /\ \A t \in Tasks :
          tasks'[t].art = a => tasks'[t].pc \notin {"term_wait", "kill_wait", "create", "sleep"}
    /\ procs[p].status = "running" /\ procs'[p].status = "running"
    /\ runner'[art[a].runner].proc = p

\* C36: when Script.run returns ready with its process running, the Script
\* is ACTIVE, its port is the Runner's port and run_start_event is set; and
\* as long as that process stays the Runner's current process and runs, no
\* step (no exit watcher of an earlier process) changes that
C36_WatcherKeepsLaterRun ==
    [][\A a \in Artifacts :
          IsScript(St, a) =>
              /\ (ev'.kind = "run_ret" /\ ev'.art = a /\ ev'.ready
                    /\ runner'[art[a].runner].proc # None
                    /\ procs'[runner'[art[a].runner].proc].status = "running")
                     => Settled(a)'
              /\ (Settled(a) /\ StaysCurrent(a)) => Settled(a)']_vars

\* C37: in the state a Script.run has raised in (Runner.run raised: the pool
\* had no port), with no other run of the Script under way, the Script is
\* not STARTING: its state is INACTIVE, ACTIVE or FAILED_TO_START
C37_RaisedRunNotStarting ==
    (/\ ev.kind = "run_raised"
     /\ \A t \in Tasks :
           tasks[t].art = ev.art =>
               tasks[t].pc \notin {"term_wait", "kill_wait", "create", "sleep"})
        => art[ev.art].state \in {"inactive", "active", "failed to start"}

\* C40: every non-shared object of an owner index is the entry the canonical
\* index stores at its (name, version), and every entry of the canonical
\* index is in the index of its owner
C40_IndexesConsistent ==
    \A c \in CollNames :
        LET C == Coll(RS, c)
        IN
        /\ \A o \in ObjectsOf(C) :
              o.shared = 0 => get_object(C.by_name, o.name, o.version) = o
        /\ \A e \in CanonicalOf(C) : e \in IndexOf(C, OwnerOf(e.repo))

\* C38: a delete_release of tag T of repository R leaves every Script and
\* Service of every other repository, of version T too, where it was: in the
\* owner indexes and in the canonical index
C38_OtherReposKept ==
    [][last'.op = "delete_release" =>
          \A c \in CollNames :
              /\ \A u \in Users :
                    \A o \in IndexOf(Coll(RS, c), u) :
                        o.repo # last'.who => o \in IndexOf(Coll(RS, c), u)'
              /\ \A o \in CanonicalOf(Coll(RS, c)) :
                    o.repo # last'.who => o \in CanonicalOf(Coll(RS, c))']_vars

\* no process is forked in this step
NoSpawn == \A p \in Procs : procs[p].status = "unused" => procs'[p].status = "unused"

\* C34: a Service.run whose checkout of the Release raised has spawned no
\* process and left the Service (its state: not STARTING) and its Runner as
\* they were, and the Release's path does not exist afterwards, so that the
\* next run checks it out again
C34_FailedCheckoutRetried ==
    [][ev'.kind = "load_raised" =>
          /\ NoSpawn
          /\ art' = art /\ runner' = runner
          /\ last'.raised
          /\ SvcPath \notin disk']_vars

\* the release of the Service has been deleted, the Service is out of the
\* index, and the process of its Runner has exited on the kill of the purge:
\* none runs and no run of the Service is under way
PurgedDown ==
    LET p == runner[1].proc IN
    /\ rels[1]["v1"] = NoRel
    /\ ~has_object(services, 1, "svc", "v1")
    /\ p # None /\ procs[p].status = "exited" /\ procs[p].sig = 2
    /\ \A q \in Procs : procs[q].status # "running"
    /\ \A t \in Tasks : tasks[t].pc \notin {"auto", "svc_run_log", "create"}

\* C39: once the release is deleted and the Service's process is down, no
\* step spawns a process for the Service or brings the release's snapshot
\* back on disk
C39_NotResurrected ==
    [][PurgedDown => (NoSpawn /\ art'[1].state # "starting" /\ disk' \subseteq disk)]_vars

====
